---- MODULE Spec2Model ----
(***************************************************************************)
(* A model of the STVPoll vote counting library: the shared vote-transfer  *)
(* engine (abcs.py), the ballots and the result accumulator (utils.py),    *)
(* the tie-break strategies (tiebreakers.py), the round policies of IRV    *)
(* (irv.py) and Scottish STV (scottish_stv.py), and CPO-STV with its       *)
(* comparison sub-elections (cpo_stv.py).                                  *)
(***************************************************************************)
EXTENDS Integers, Sequences, FiniteSets, TLC

(***************************************************************************)
(* decimal.Decimal.  A Decimal is kept as a sign neg and a coefficient c in *)
(* limbs of four decimal digits, least significant limb first, with e of   *)
(* the limbs lying after the decimal point.  Values are kept normalised    *)
(* (no zero limb at either end that can be dropped), so that equality of   *)
(* records is numeric equality, as Decimal.__eq__ is.  Every operation     *)
(* rounds its result to DecimalPrec significant digits, half to even, as   *)
(* the default context of the decimal module does.                         *)
(***************************************************************************)
DecimalPrec == 28

RoundPlaces == 5

LimbDigits == 4

Base == 10000

Max(a, b) == IF a >= b THEN a ELSE b

Min(a, b) == IF a <= b THEN a ELSE b

Zeros(k) == [i \in 1..k |-> 0]

Pow10(r) == CASE r = 0 -> 1 [] r = 1 -> 10 [] r = 2 -> 100 [] r = 3 -> 1000 [] OTHER -> Base

LimbAt(a, i) == IF i >= 1 /\ i <= Len(a) THEN a[i] ELSE 0

\* Drop the zero limbs at the most significant end.
LTop(a) ==
    IF \A i \in 1..Len(a) : a[i] = 0 THEN 0
    ELSE CHOOSE i \in 1..Len(a) : a[i] # 0 /\ \A j \in (i + 1)..Len(a) : a[j] = 0

LNorm(a) == SubSeq(a, 1, LTop(a))

RECURSIVE LOfInt(_)
LOfInt(n) == IF n = 0 THEN <<>> ELSE <<n % Base>> \o LOfInt(n \div Base)

\* The carry into limb i of the limb-wise sums s is decided by the nearest
\* lower limb that does not merely pass a carry on.
LCarry(s, i) ==
    IF \E j \in 1..(i - 1) : s[j] >= Base /\ \A k \in (j + 1)..(i - 1) : s[k] = Base - 1
    THEN 1 ELSE 0

LCarried(s) ==
    LNorm([i \in 1..(Len(s) + 1) |-> ((IF i <= Len(s) THEN s[i] ELSE 0) + LCarry(s, i)) % Base])

LAdd(a, b) == LCarried([i \in 1..Max(Len(a), Len(b)) |-> LimbAt(a, i) + LimbAt(b, i)])

LBorrow(a, b, i) ==
    IF \E j \in 1..(i - 1) :
          a[j] < LimbAt(b, j) /\ \A k \in (j + 1)..(i - 1) : a[k] = LimbAt(b, k)
    THEN 1 ELSE 0

\* a - b for a >= b.
LSub(a, b) ==
    LNorm([i \in 1..Len(a) |-> (a[i] - LimbAt(b, i) - LBorrow(a, b, i) + Base) % Base])

\* The most significant limb in which a and b of one length differ.
LDiffer(a, b) ==
    CHOOSE i \in 1..Len(a) : a[i] # b[i] /\ \A j \in (i + 1)..Len(a) : a[j] = b[j]

\* -1, 0, 1 as a < b, a = b, a > b; both normalised.
LCmp(a, b) ==
    IF a = b THEN 0
    ELSE IF Len(a) < Len(b) THEN -1
    ELSE IF Len(a) > Len(b) THEN 1
    ELSE IF a[LDiffer(a, b)] < b[LDiffer(a, b)] THEN -1 ELSE 1

LShift(a, k) == IF a = <<>> THEN <<>> ELSE Zeros(k) \o a

\* a * m for 0 <= m < Base.
LMulSmall(a, m) ==
    LAdd([i \in 1..Len(a) |-> (a[i] * m) % Base],
         <<0>> \o [i \in 1..Len(a) |-> (a[i] * m) \div Base])

RECURSIVE LMul(_, _)
LMul(a, b) ==
    IF a = <<>> \/ b = <<>> THEN <<>>
    ELSE LAdd(LMulSmall(a, b[1]), LShift(LMul(a, Tail(b)), 1))

Fits(r, b, q) == LCmp(LMulSmall(b, q), r) <= 0

\* The largest q' = q + k * w + ... < Base with q' * b <= r, one decimal digit
\* k at a time from the weight w down.
RECURSIVE LQuotFrom(_, _, _, _)
LQuotFrom(r, b, q, w) ==
    IF w = 0 THEN q
    ELSE LQuotFrom(r, b, q + w * Cardinality({k \in 1..9 : Fits(r, b, q + k * w)}),
                   w \div 10)

\* The largest q < Base with q * b <= r, for r < Base * b.
LQuotLimb(r, b) ==
    IF Len(b) = 1 /\ Len(r) <= 2 THEN (LimbAt(r, 2) * Base + LimbAt(r, 1)) \div b[1]
    ELSE LQuotFrom(r, b, 0, Base \div 10)

\* One step of the long division by b: the limb ql joins the quotient q and
\* leaves the remainder of r1.
LDivStep(b, r1, ql, q) == [q |-> <<ql>> \o q, r |-> LSub(r1, LMulSmall(b, ql))]

LDivLimb(b, r1, q) == LDivStep(b, r1, LQuotLimb(r1, b), q)

\* Long division of a by b # 0, from the most significant limb of a down;
\* s holds the quotient and the remainder of the limbs above i, which are
\* evaluated before the step at limb i starts.
RECURSIVE LDivModAt(_, _, _, _)
LDivModAt(a, b, i, s) ==
    IF i = 0 \/ Len(s.q) < 0 THEN [q |-> LNorm(s.q), r |-> s.r]
    ELSE LDivModAt(a, b, i - 1, LDivLimb(b, LNorm(<<a[i]>> \o s.r), s.q))

LDivMod(a, b) == LDivModAt(a, b, Len(a), [q |-> <<>>, r |-> <<>>])

LTopDigits(t) == IF t >= 1000 THEN 4 ELSE IF t >= 100 THEN 3 ELSE IF t >= 10 THEN 2 ELSE 1

LDigits(a) == IF a = <<>> THEN 0 ELSE LimbDigits * (Len(a) - 1) + LTopDigits(a[Len(a)])

\* Round a to a multiple of 10^t (t > 0), half to even; sticky says that a
\* non-zero remainder lies below the digits of a.
LRoundAt(a, t, sticky) ==
    LET j    == t \div LimbDigits
        r    == t % LimbDigits
        L    == LimbAt(a, j + 1)
        P    == Pow10(r)
        g    == IF r > 0 THEN (L \div Pow10(r - 1)) % 10 ELSE LimbAt(a, j) \div 1000
        rest == \/ sticky
                \/ IF r > 0 THEN L % Pow10(r - 1) # 0 \/ \E i \in 1..j : LimbAt(a, i) # 0
                   ELSE LimbAt(a, j) % 1000 # 0 \/ \E i \in 1..(j - 1) : LimbAt(a, i) # 0
        odd  == ((L \div P) % 10) % 2 = 1
        cut  == [i \in 1..Max(Len(a), j + 1) |->
                    IF i <= j THEN 0 ELSE IF i = j + 1 THEN L - (L % P) ELSE a[i]]
    IN  IF g > 5 \/ (g = 5 /\ (rest \/ odd)) THEN LAdd(cut, Zeros(j) \o <<P>>) ELSE cut

\* Round a to a multiple of 10^t where t > 0.
LRoundTo(a, t, sticky) == IF t <= 0 THEN a ELSE LRoundAt(a, t, sticky)

\* The number of zero limbs, at most e, at the least significant end of n.
LTrail(n, e) ==
    CHOOSE z \in 0..Min(e, Len(n)) :
        /\ \A i \in 1..z : n[i] = 0
        /\ z = Min(e, Len(n)) \/ n[z + 1] # 0

DecTrim(n, e, z) == [c |-> SubSeq(n, z + 1, Len(n)), e |-> e - z]

DecOfLimbs(n, e) == IF n = <<>> THEN [c |-> <<>>, e |-> 0] ELSE DecTrim(n, e, LTrail(n, e))

DecNorm(c, e) == DecOfLimbs(LNorm(c), e)

\* Round to DecimalPrec significant digits (the context's precision).
DecContext(c, e, sticky) == DecNorm(LRoundTo(c, LDigits(c) - DecimalPrec, sticky), e)

\* The Decimal of the magnitude m (its fields c and e) and the sign neg;
\* zero is kept without sign, as it compares equal either way.
Signed(m, neg) == [c |-> m.c, e |-> m.e, neg |-> neg /\ m.c # <<>>]

\* Decimal(n) of an integer n >= 0.
Dec(n) == [c |-> LOfInt(n), e |-> 0, neg |-> FALSE]

DecZero == [c |-> <<>>, e |-> 0, neg |-> FALSE]

DecOne == [c |-> <<1>>, e |-> 0, neg |-> FALSE]

\* The coefficient of x with e >= x.e limbs after the point.
DecCoef(x, e) == LShift(x.c, e - x.e)

\* The magnitudes of x and y compared.
MagCmp(x, y) == LCmp(DecCoef(x, Max(x.e, y.e)), DecCoef(y, Max(x.e, y.e)))

DecCmp(x, y) ==
    IF x.neg # y.neg THEN (IF x.neg THEN -1 ELSE 1)
    ELSE IF x.neg THEN MagCmp(y, x)
    ELSE MagCmp(x, y)

DecLe(x, y) == DecCmp(x, y) <= 0

DecLt(x, y) == DecCmp(x, y) < 0

MagAdd(x, y) ==
    DecContext(LAdd(DecCoef(x, Max(x.e, y.e)), DecCoef(y, Max(x.e, y.e))),
               Max(x.e, y.e), FALSE)

\* |x| - |y| for |x| >= |y|.
MagSub(x, y) ==
    DecContext(LSub(DecCoef(x, Max(x.e, y.e)), DecCoef(y, Max(x.e, y.e))),
               Max(x.e, y.e), FALSE)

DecAdd(x, y) ==
    IF x.neg = y.neg THEN Signed(MagAdd(x, y), x.neg)
    ELSE IF MagCmp(x, y) >= 0 THEN Signed(MagSub(x, y), x.neg)
    ELSE Signed(MagSub(y, x), y.neg)

DecNeg(x) == Signed(x, ~x.neg)

DecSub(x, y) == DecAdd(x, DecNeg(y))

DecMul(x, y) == Signed(DecContext(LMul(x.c, y.c), x.e + y.e, FALSE), x.neg # y.neg)

\* The quotient qr.q with e limbs after the point, rounded once; the
\* remainder decides the halfway cases.
DecQuot(qr, e) ==
    IF e >= 0 THEN DecContext(qr.q, e, qr.r # <<>>)
    ELSE DecContext(LShift(qr.q, -e), 0, qr.r # <<>>)

\* The limbs x is shifted by to give a quotient of more than DecimalPrec digits.
DecDivShift(x, y) == Max(DecimalPrec \div LimbDigits + 2 + Len(y.c) - Len(x.c), 0)

\* |x| / |y| for y # 0.
DecDivBy(x, y, k) == DecQuot(LDivMod(LShift(x.c, k), y.c), x.e + k - y.e)

\* x / y for y # 0.
DecDiv(x, y) ==
    IF x.c = <<>> THEN DecZero
    ELSE Signed(DecDivBy(x, y, DecDivShift(x, y)), x.neg # y.neg)

\* round(x, places): quantize to that many decimal places, half to even.
DecRound(x, places) ==
    IF LimbDigits * x.e - places <= 0 THEN x
    ELSE Signed(DecNorm(LRoundAt(x.c, LimbDigits * x.e - places, FALSE), x.e), x.neg)

\* sum(...): added from the left, starting at 0.
RECURSIVE DecSumFrom(_, _)
DecSumFrom(acc, s) == IF s = <<>> THEN acc ELSE DecSumFrom(DecAdd(acc, s[1]), Tail(s))

DecSum(s) == DecSumFrom(DecZero, s)

(***************************************************************************)
(* Bounds of the model and the inputs the operations are tried with.       *)
(***************************************************************************)
MaxSeats == 2

MaxBallots == 2

MaxCount == 2

MaxEmpty == 1

MaxRank == 2

MaxElected == 3

\* The proposals an election is constructed with: a prefix of this list.
Candidates == <<"A", "B", "C">>


NoProposal == "None"

Range(s) == {s[i] : i \in DOMAIN s}

Contains(s, x) == \E i \in DOMAIN s : s[i] = x

Append1(s, x) == s \o <<x>>

\* All orders of the elements of a sequence without repetitions.
Perms(s) ==
    {q \in [1..Len(s) -> Range(s)] : \A i, j \in 1..Len(s) : q[i] = q[j] => i = j}

Reverse(s) == [i \in 1..Len(s) |-> s[Len(s) + 1 - i]]

\* The orders random.shuffle is taken to leave a list in: the given one and
\* its reverse.  The proposals are interchangeable and the rankings of the
\* ballots range over all of them, so every order of the list relative to
\* the ballots occurs.
Shuffles(s) == {s, Reverse(s)}

ProposalLists == {SubSeq(Candidates, 1, n) : n \in 0..Len(Candidates)}

\* Rankings of distinct names.  Under a list of fewer proposals than
\* Candidates the remaining names are those of unknown proposals.
Rankings ==
    {r \in UNION {[1..n -> Range(Candidates)] : n \in 0..MaxRank} :
        \A i, j \in DOMAIN r : r[i] = r[j] => i = j}

(***************************************************************************)
(* utils.py: minmax, PreferenceBallot.                                     *)
(***************************************************************************)
\* max(items, key) and min(items, key) return the first extreme item.
minmax(items, key, high) ==
    LET better(x, y) == IF high THEN DecLt(key[y], key[x]) ELSE DecLt(key[x], key[y])
        i == CHOOSE i \in 1..Len(items) :
                 /\ \A j \in 1..(i - 1) : better(items[i], items[j])
                 /\ \A j \in (i + 1)..Len(items) : ~better(items[j], items[i])
    IN  items[i]

PreferenceBallot(preferences, count) ==
    [preferences |-> preferences, count |-> count, multiplier |-> DecOne, index |-> 0]

value(b) == DecMul(b.multiplier, Dec(b.count))

decrease_value(b, multiplier) == [b EXCEPT !.multiplier = DecMul(@, multiplier)]

current_preference(b) ==
    IF b.index < Len(b.preferences) THEN b.preferences[b.index + 1] ELSE NoProposal

exhausted(b) == b.index >= Len(b.preferences)

\* The ballot after the call and the proposal returned (NoProposal for None).
RECURSIVE get_transfer_preference(_, _)
get_transfer_preference(b, standing) ==
    IF exhausted(b) THEN [ballot |-> b, pref |-> NoProposal]
    ELSE LET b1 == [b EXCEPT !.index = @ + 1]
         IN  IF Contains(standing, current_preference(b1))
             THEN [ballot |-> b1, pref |-> current_preference(b1)]
             ELSE get_transfer_preference(b1, standing)

(***************************************************************************)
(* abcs.py: STVPoll.  The operations are written over a record p of the    *)
(* fields of one poll (the fields of its ElectionResult included), so that *)
(* they serve every poll alike.  An operation that can raise returns the   *)
(* exception in the field raised ("" when it returns normally).            *)
(***************************************************************************)
\* STVPoll.__init__ after the check of the seats; shuffled is the order
\* random.shuffle leaves the proposals in.
STVPoll(v, s, shuffled, pedantic, quota_fn, breakers) ==
    [raised |-> "", pending |-> <<>>, variant |-> v,
     proposals |-> shuffled, seats |-> s, pedantic_order |-> pedantic,
     _quota_function |-> quota_fn, _quota |-> <<>>, quota_calls |-> 0,
     tiebreakers |-> breakers,
     votes |-> [x \in Range(shuffled) |-> DecZero],
     excluded |-> <<>>, ballots |-> <<>>, votes_transferred |-> {},
     rounds |-> <<>>, elected |-> <<>>, transfer_log |-> <<>>,
     \* RandomListTiebreaker.__init__ sets extra_data['randomized'] = False
     randomized |-> IF Contains(breakers, "tiebreak_random") THEN <<FALSE>> ELSE <<>>,
     random_list |-> <<>>, exhausted |-> DecZero, empty_ballot_count |-> 0,
     \* attribute and local of CPO_STV, blank in the other elections
     random_in_tiebreaks |-> FALSE, duels |-> <<>>]

ballot_count(p) ==
    LET RECURSIVE total(_)
        total(i) == IF i = 0 THEN 0 ELSE p.ballots[i].count + total(i - 1)
    IN  total(Len(p.ballots))

\* add_ballot(ranking, count): nothing is checked.
add_ballot(p, ranking, count) ==
    IF ranking # <<>>
    THEN [p EXCEPT !.ballots = Append1(@, PreferenceBallot(ranking, count))]
    ELSE [p EXCEPT !.empty_ballot_count = @ + count]

\* quotas.py, by its interface: Droop and Hagenbach-Bischof.
droop_quota(p) == (ballot_count(p) \div (p.seats + 1)) + 1

hagenbach_bischof_quota(p) == ballot_count(p) \div (p.seats + 1)

\* irv.py
irv_quota(p) == ((ballot_count(p) + p.empty_ballot_count) \div 2) + 1

\* self._quota_function(self)
quota_function(p) ==
    CASE p._quota_function = "droop_quota" -> droop_quota(p)
      [] p._quota_function = "hagenbach_bischof_quota" -> hagenbach_bischof_quota(p)
      [] p._quota_function = "irv_quota" -> irv_quota(p)

\* The property quota: the value read, and the poll after the read.
quota(p) == IF p._quota = <<>> THEN quota_function(p) ELSE p._quota[1]

\* A property that calls the quota function at every read.
read_quota_afresh(p) ==
    [p EXCEPT !._quota = <<quota_function(p)>>, !.quota_calls = @ + 1]

read_quota(p) ==
    IF p._quota = <<>>
    THEN [p EXCEPT !._quota = <<quota_function(p)>>, !.quota_calls = @ + 1]
    ELSE p

get_votes(p, x) == p.votes[x]

standing_proposals(p) ==
    SelectSeq(p.proposals, LAMBDA x : ~Contains(p.excluded, x) /\ ~Contains(p.elected, x))

get_transferable_proposals(p) ==
    SelectSeq(p.proposals,
              LAMBDA x : ~Contains(standing_proposals(p), x) /\ x \notin p.votes_transferred)

standing_above_quota(p) ==
    SelectSeq(standing_proposals(p), LAMBDA x : DecLe(Dec(quota(p)), get_votes(p, x)))

\* The poll after a comparison of the votes of each standing proposal with
\* self.quota: the quota is read if there is a standing proposal.
quota_read_by_standing(p) == IF standing_proposals(p) = <<>> THEN p ELSE read_quota(p)

seats_to_fill(p) == p.seats - Len(p.elected)

is_complete(p) == Len(p.elected) = p.seats

\* result.transfer_log.append(...): current_votes and exhausted_votes are those
\* of the poll at the call.
log_transfer(p, transfers) ==
    [p EXCEPT !.transfer_log = Append1(@, [transfers |-> transfers,
                                          current_votes |-> p.votes,
                                          exhausted_votes |-> p.exhausted])]

\* A loop that forgets the ballot it has just moved.
moved_to_forgotten(t) == [ballot |-> t.ballot, moved |-> FALSE, pref |-> t.pref]

\* The outcome t of get_transfer_preference as one pass of the loop.
moved_to(t) == [ballot |-> t.ballot, moved |-> TRUE, pref |-> t.pref]

\* One pass of the loop of transfer_votes: the ballot after it, whether it
\* was a ballot of the proposal, and the proposal it went to.
transfer_ballot(b, proposal, fraction, standing) ==
    IF current_preference(b) # proposal
    THEN [ballot |-> b, moved |-> FALSE, pref |-> NoProposal]
    ELSE moved_to(get_transfer_preference(decrease_value(b, fraction), standing))

transfer_ballots(p, proposal, fraction) ==
    [i \in 1..Len(p.ballots) |->
        transfer_ballot(p.ballots[i], proposal, fraction, standing_proposals(p))]

\* The counts of the ballots that went to target, whatever their multiplier.
values_to_undiminished(moves, target) ==
    LET pos == SelectSeq([i \in 1..Len(moves) |-> i],
                         LAMBDA i : moves[i].moved /\ moves[i].pref = target)
    IN  [k \in 1..Len(pos) |-> Dec(moves[pos[k]].ballot.count)]

\* ballot.value of the ballots that went to target, in the order of the loop.
values_to(moves, target) ==
    LET pos == SelectSeq([i \in 1..Len(moves) |-> i],
                         LAMBDA i : moves[i].moved /\ moves[i].pref = target)
    IN  [k \in 1..Len(pos) |-> value(moves[pos[k]].ballot)]

\* The Counter transfers at the end of the loop.
transfers_counter(moves, proposal) ==
    [k \in {<<proposal, moves[i].pref>> :
               i \in {j \in 1..Len(moves) : moves[j].moved /\ moves[j].pref # NoProposal}}
        |-> DecSum(values_to(moves, k[2]))]

\* The poll after the loop over the ballots, the pop and the log entry.
transfer_moves(p, proposal, moves) ==
    log_transfer(
        [p EXCEPT !.ballots = [i \in 1..Len(moves) |-> moves[i].ballot],
                  !.votes = [x \in DOMAIN p.votes \ {proposal} |->
                                DecSumFrom(p.votes[x], values_to(moves, x))],
                  !.votes_transferred = @ \cup {proposal},
                  !.exhausted = DecSumFrom(@, values_to(moves, NoProposal))],
        <<transfers_counter(moves, proposal)>>)

transfer_votes(p, proposal, fraction) ==
    transfer_moves(p, proposal, transfer_ballots(p, proposal, fraction))

\* votes[ballot.current_preference] += ballot.value raises KeyError at the
\* first ballot whose first preference is no key of votes.
first_unknown(p) ==
    LET bad == {i \in 1..Len(p.ballots) : current_preference(p.ballots[i]) \notin DOMAIN p.votes}
    IN  IF bad = {} THEN Len(p.ballots) + 1 ELSE CHOOSE i \in bad : \A j \in bad : i <= j

first_values(bs, x, stop) ==
    LET pos == SelectSeq([i \in 1..(stop - 1) |-> i], LAMBDA i : current_preference(bs[i]) = x)
    IN  [k \in 1..Len(pos) |-> value(bs[pos[k]])]

\* The loop of initial_votes over the ballots before stop.
initial_votes_until(p, stop) ==
    [p EXCEPT !.votes = [x \in DOMAIN p.votes |->
                            DecSumFrom(p.votes[x], first_values(p.ballots, x, stop))]]

initial_votes(p) ==
    IF first_unknown(p) <= Len(p.ballots)
    THEN [initial_votes_until(p, first_unknown(p)) EXCEPT !.raised = "KeyError"]
    ELSE log_transfer(initial_votes_until(p, Len(p.ballots) + 1), <<>>)

\* get_ties: the proposals of sample with the votes of proposal, or None
\* (here the empty list) when there are not several.
get_ties(proposal, sample, votes) ==
    LET ties == SelectSeq(sample, LAMBDA x : votes[x] = votes[proposal])
    IN  IF Len(ties) > 1 THEN ties ELSE <<>>

(***************************************************************************)
(* utils.py: ElectionRound and ElectionResult.                             *)
(***************************************************************************)
ElectionRound(index, votes) ==
    [index |-> index, selected |-> <<>>, votes |-> votes,
     status |-> "None", selection_method |-> "None"]

new_round(p) == [p EXCEPT !.rounds = Append1(@, ElectionRound(Len(@) + 1, p.votes))]

\* ElectionRound.select on the current round; proposals is a list.
select(p, proposals, method, status) ==
    [p EXCEPT !.rounds[Len(p.rounds)] =
        [@ EXCEPT !.selected = @ \o proposals,
                  !.selection_method = method,
                  !.status = status]]

result_elect(p, proposals, method) ==
    select([p EXCEPT !.elected = @ \o proposals], proposals, method, "elected")

result_exclude(p, proposals, method) == select(p, proposals, method, "excluded")

elect(p, proposal, method) == result_elect(new_round(p), <<proposal>>, method)

\* ElectionRound.as_dict
round_as_dict(r) ==
    [status |-> r.status, selected |-> r.selected, method |-> r.selection_method,
     vote_count |-> r.votes]

\* ElectionResult.as_dict, but for the runtime, which is read off the clock.
as_dict(p) ==
    [winners |-> p.elected, proposals |-> p.proposals, complete |-> is_complete(p),
     rounds |-> [i \in DOMAIN p.rounds |-> round_as_dict(p.rounds[i])],
     quota |-> quota(p), empty_ballot_count |-> p.empty_ballot_count,
     \* **self.extra_data
     randomized |-> p.randomized, randomized_proposal_list |-> p.random_list]

\* An exclude that records the proposal as elected.
exclude_as_elected(p, proposal, method) ==
    result_elect(new_round([p EXCEPT !.excluded = Append1(@, proposal)]),
                 <<proposal>>, method)

exclude(p, proposal, method) ==
    result_exclude(new_round([p EXCEPT !.excluded = Append1(@, proposal)]),
                   <<proposal>>, method)

\* sorted(proposals, key=get_votes, reverse=True): stable, so proposals with
\* equal votes keep the order they have in the list.
sorted_by_votes(p, proposals) ==
    LET n == Len(proposals)
        before(i, j) == \/ DecLt(get_votes(p, proposals[j]), get_votes(p, proposals[i]))
                        \/ get_votes(p, proposals[i]) = get_votes(p, proposals[j]) /\ i < j
        rank(i) == 1 + Cardinality({j \in 1..n : j # i /\ before(j, i)})
    IN  [k \in 1..n |-> proposals[CHOOSE i \in 1..n : rank(i) = k]]

(***************************************************************************)
(* tiebreakers.py.  A call returns the poll after it (the random strategy  *)
(* marks the result and draws its list on first use), the proposals it     *)
(* kept and the exception it raised.  draw is the list random.sample       *)
(* returns if the call is the one that draws it.                           *)
(***************************************************************************)
\* A random strategy that leaves the result unmarked.
RandomListTiebreaker_unmarked(p, ties, most_votes, draw) ==
    LET random_list == IF p.random_list = <<>> THEN draw ELSE p.random_list
        order == IF most_votes THEN random_list ELSE Reverse(random_list)
        first == CHOOSE i \in 1..Len(order) :
                     /\ Contains(ties, order[i])
                     /\ \A j \in 1..(i - 1) : ~Contains(ties, order[j])
    IN  [poll |-> [p EXCEPT !.random_list = random_list],
         ties |-> <<order[first]>>,
         raised |-> ""]

RandomListTiebreaker(p, ties, most_votes, draw) ==
    LET random_list == IF p.random_list = <<>> THEN draw ELSE p.random_list
        order == IF most_votes THEN random_list ELSE Reverse(random_list)
        first == CHOOSE i \in 1..Len(order) :
                     /\ Contains(ties, order[i])
                     /\ \A j \in 1..(i - 1) : ~Contains(ties, order[j])
    IN  [poll |-> [p EXCEPT !.randomized = <<TRUE>>, !.random_list = random_list],
         ties |-> <<order[first]>>,
         raised |-> ""]

\* The stages of the transfer log from the i-th back to the first.
RECURSIVE history_stage(_, _, _, _)
history_primary(p, ties, most_votes, i, primary_candidate, stage_ties) ==
    IF stage_ties = <<>> THEN [poll |-> p, ties |-> <<primary_candidate>>, raised |-> ""]
    ELSE history_stage(p, stage_ties, most_votes, i - 1)

history_votes(p, ties, most_votes, i, stage_votes, primary_candidate) ==
    history_primary(p, ties, most_votes, i, primary_candidate,
                    get_ties(primary_candidate, ties, stage_votes))

history_stage(p, ties, most_votes, i) ==
    IF i = 0 THEN [poll |-> p, ties |-> ties, raised |-> ""]
    ELSE IF \E x \in Range(ties) : x \notin DOMAIN p.transfer_log[i].current_votes
    THEN [poll |-> p, ties |-> ties, raised |-> "KeyError"]
    ELSE history_votes(p, ties, most_votes, i, p.transfer_log[i].current_votes,
                       minmax(ties, [x \in Range(ties) |-> p.transfer_log[i].current_votes[x]],
                              most_votes))

\* A history strategy that, the log exhausted, returns the proposals it was
\* given.
TransferHistoryTiebreaker_given(p, ties, most_votes) ==
    IF Len(history_stage(p, ties, most_votes, Len(p.transfer_log)).ties) = 1
    THEN history_stage(p, ties, most_votes, Len(p.transfer_log))
    ELSE [history_stage(p, ties, most_votes, Len(p.transfer_log)) EXCEPT !.ties = ties]

TransferHistoryTiebreaker(p, ties, most_votes) ==
    history_stage(p, ties, most_votes, Len(p.transfer_log))

tiebreaker(name, p, ties, most_votes, draw) ==
    IF name = "tiebreak_random" THEN RandomListTiebreaker(p, ties, most_votes, draw)
    ELSE TransferHistoryTiebreaker(p, ties, most_votes)

\* resolve_tie from the i-th tiebreaker on; t is what that tiebreaker returned.
RECURSIVE resolve_tie_from(_, _, _, _, _)
\* A walk that stops only at the last strategy of the chain.
resolve_tie_to_the_end(t, method, most_votes, draw, i) ==
    IF t.raised # ""
    THEN [poll |-> t.poll, proposal |-> NoProposal, method |-> "None", raised |-> t.raised]
    ELSE IF Len(t.ties) = 1 /\ i = Len(t.poll.tiebreakers)
    THEN [poll |-> t.poll, proposal |-> t.ties[1], method |-> method, raised |-> ""]
    ELSE resolve_tie_from(t.poll, t.ties, most_votes, draw, i + 1)

resolve_tie_with(t, method, most_votes, draw, i) ==
    IF t.raised # ""
    THEN [poll |-> t.poll, proposal |-> NoProposal, method |-> "None", raised |-> t.raised]
    ELSE IF Len(t.ties) = 1
    THEN [poll |-> t.poll, proposal |-> t.ties[1], method |-> method, raised |-> ""]
    ELSE resolve_tie_from(t.poll, t.ties, most_votes, draw, i + 1)

resolve_tie_from(p, ties, most_votes, draw, i) ==
    IF i > Len(p.tiebreakers)
    THEN [poll |-> p, proposal |-> NoProposal, method |-> "None",
          raised |-> "IncompleteResult"]
    ELSE resolve_tie_with(tiebreaker(p.tiebreakers[i], p, ties, most_votes, draw),
                          p.tiebreakers[i], most_votes, draw, i)

resolve_tie(p, ties, most_votes, draw) == resolve_tie_from(p, ties, most_votes, draw, 1)

\* get_proposal once minmax has returned proposal and get_ties, over the
\* standing proposals, has returned ties.
get_proposal_of(p, most_votes, draw, proposal, ties) ==
    IF ties # <<>> THEN resolve_tie(p, ties, most_votes, draw)
    ELSE [poll |-> p, proposal |-> proposal, method |-> "direct", raised |-> ""]

get_proposal_tied(p, most_votes, draw, proposal) ==
    get_proposal_of(p, most_votes, draw, proposal,
                    get_ties(proposal, standing_proposals(p), p.votes))

\* get_proposal: sample is passed by every caller (the standing proposals
\* where the code defaults to them); max() and min() of no item raise.
get_proposal(p, most_votes, sample, draw) ==
    IF sample = <<>>
    THEN [poll |-> p, proposal |-> NoProposal, method |-> "None", raised |-> "ValueError"]
    ELSE get_proposal_tied(p, most_votes, draw,
                           minmax(sample, [x \in Range(sample) |-> get_votes(p, x)], most_votes))

\* elect_multiple: with pedantic_order the loop `while proposals` is entered
\* with the list in pending; the loop never shortens the list.
elect_multiple(p, proposals, method) ==
    IF proposals = <<>> THEN p
    ELSE IF p.pedantic_order THEN [new_round(p) EXCEPT !.pending = proposals]
    ELSE result_elect(new_round(p), sorted_by_votes(p, proposals), method)

\* self.result.elect(proposal, method) with what get_proposal returned.
elect_selected(g) ==
    IF g.raised # "" THEN [g.poll EXCEPT !.raised = g.raised]
    ELSE result_elect(g.poll, <<g.proposal>>, g.method)

\* One pass of the loop of elect_multiple under pedantic_order.
elect_next(p, draw) == elect_selected(get_proposal(p, TRUE, p.pending, draw))

(***************************************************************************)
(* scottish_stv.py and irv.py: the rounds.                                 *)
(***************************************************************************)
\* A round() that leaves the value as it is.
ScottishSTV_unrounded(x) == x

\* ScottishSTV.round
ScottishSTV_round(x) == DecRound(x, RoundPlaces)

\* (votes - quota) / votes: ScottishSTV rounds it, CPOComparisonPoll does
\* not.  Decimal raises an ArithmeticError for a division by zero.
get_transfer_fraction(p, proposal) ==
    IF get_votes(p, proposal) = DecZero
    THEN [fraction |-> DecZero, raised |-> "ArithmeticError"]
    ELSE IF p.variant = "CPOComparisonPoll"
    THEN [fraction |-> DecDiv(DecSub(get_votes(p, proposal), Dec(quota(p))),
                              get_votes(p, proposal)),
          raised |-> ""]
    ELSE [fraction |-> ScottishSTV_round(
                           DecDiv(DecSub(get_votes(p, proposal), Dec(quota(p))),
                                  get_votes(p, proposal))),
          raised |-> ""]

\* A round that transfers the votes of the proposal without excluding it.
exclude_selected_kept(g) ==
    IF g.raised # "" THEN [g.poll EXCEPT !.raised = g.raised]
    ELSE transfer_votes(g.poll, g.proposal, DecOne)

exclude_selected(g) ==
    IF g.raised # "" THEN [g.poll EXCEPT !.raised = g.raised]
    ELSE transfer_votes(exclude(g.poll, g.proposal, g.method), g.proposal, DecOne)

\* An exclusion of the proposal with the most votes.
exclude_most_and_transfer(p, draw) ==
    exclude_selected(get_proposal(p, TRUE, standing_proposals(p), draw))

exclude_and_transfer(p, draw) ==
    exclude_selected(get_proposal(p, FALSE, standing_proposals(p), draw))

\* self.transfer_votes(proposal, f) with the fraction, or the exception, f.
transfer_fraction(p, proposal, f) ==
    IF f.raised # "" THEN [p EXCEPT !.raised = f.raised]
    ELSE transfer_votes(p, proposal, f.fraction)

\* The transfer of the surplus of the proposal get_proposal returned;
\* get_transfer_fraction reads the quota.
transfer_selected(g) ==
    IF g.raised # "" THEN [g.poll EXCEPT !.raised = g.raised]
    ELSE transfer_fraction(read_quota(g.poll), g.proposal,
                           get_transfer_fraction(g.poll, g.proposal))

\* A round that transfers the surpluses awaiting before it elects.
ScottishSTV_transfer_first(p, draw) ==
    IF get_transferable_proposals(p) # <<>>
    THEN transfer_selected(get_proposal(p, TRUE, get_transferable_proposals(p), draw))
    ELSE IF standing_above_quota(p) # <<>>
    THEN elect_multiple(p, standing_above_quota(p), "direct")
    ELSE IF seats_to_fill(p) = Len(standing_proposals(p))
    THEN elect_multiple(p, standing_proposals(p), "no_competition_left")
    ELSE exclude_and_transfer(p, draw)

\* calculate_round of ScottishSTV, for the poll p as standing_above_quota
\* has left it.
ScottishSTV_calculate_round(p, draw) ==
    IF standing_above_quota(p) # <<>>
    THEN elect_multiple(p, standing_above_quota(p), "direct")
    ELSE IF get_transferable_proposals(p) # <<>>
    THEN transfer_selected(get_proposal(p, TRUE, get_transferable_proposals(p), draw))
    ELSE IF seats_to_fill(p) = Len(standing_proposals(p))
    THEN elect_multiple(p, standing_proposals(p), "no_competition_left")
    ELSE exclude_and_transfer(p, draw)

\* A round that elects the first standing proposal whatever its votes.
IRV_elect_the_first(p, draw) ==
    IF standing_proposals(p) # <<>>
    THEN elect(p, standing_proposals(p)[1], "direct")
    ELSE exclude_and_transfer(p, draw)

\* calculate_round of IRV, for the poll p as the loop over the standing
\* proposals has left it.
IRV_calculate_round(p, draw) ==
    IF standing_above_quota(p) # <<>>
    THEN elect(p, standing_above_quota(p)[1], "direct")
    ELSE IF Len(standing_proposals(p)) = 1 THEN [p EXCEPT !.raised = "IncompleteResult"]
    ELSE exclude_and_transfer(p, draw)

calculate_round(p, draw) ==
    IF p.variant = "IRV" THEN IRV_calculate_round(quota_read_by_standing(p), draw)
    ELSE ScottishSTV_calculate_round(quota_read_by_standing(p), draw)

(***************************************************************************)
(* cpo_stv.py: the comparison sub-election of a duel, the duels and the    *)
(* outcome they select.                                                    *)
(***************************************************************************)
\* itertools.combinations(s, r) for r >= 0: the sublists of r items, in the
\* order of their positions.
RECURSIVE combinations(_, _)
combinations(s, r) ==
    IF r = 0 THEN << <<>> >>
    ELSE IF Len(s) < r THEN <<>>
    ELSE [i \in 1..Len(combinations(Tail(s), r - 1)) |->
             <<Head(s)>> \o combinations(Tail(s), r - 1)[i]]
         \o combinations(Tail(s), r)

\* The orders in which a set of proposals can be iterated over.
Iterations(set, base) == Perms(SelectSeq(base, LAMBDA x : x \in set))

\* CPOComparisonPoll(seats, proposals, winners, compared) and the add_ballot
\* of every ballot of the election p; winners and compared are handed to the
\* operations that read them.
CPOComparisonPoll(p, shuffled) ==
    [STVPoll("CPOComparisonPoll", p.seats, shuffled, FALSE,
             "hagenbach_bischof_quota", <<>>)
        EXCEPT !.ballots = [i \in 1..Len(p.ballots) |->
                               PreferenceBallot(p.ballots[i].preferences,
                                                p.ballots[i].count)]]

\* The first loop of perform_calculation, over the proposals in order.
RECURSIVE comparison_exclusions(_, _, _)
comparison_exclusions(sub, order, i) ==
    IF i > Len(order) THEN sub
    ELSE comparison_exclusions(
             transfer_votes(exclude(sub, order[i], "direct"), order[i], DecOne),
             order, i + 1)

\* A sub-election that leaves the proposal with no votes.
votes_at_zero(sub, prop) ==
    IF sub.raised # "" THEN sub
    ELSE [sub EXCEPT !.votes = [x \in DOMAIN sub.votes \cup {prop} |->
                                   IF x = prop THEN DecZero ELSE sub.votes[x]]]

\* self.votes[prop] = Decimal(self.quota)
votes_at_quota(sub, prop) ==
    IF sub.raised # "" THEN sub
    ELSE [sub EXCEPT !.votes = [x \in DOMAIN sub.votes \cup {prop} |->
                                   IF x = prop THEN Dec(quota(sub)) ELSE sub.votes[x]]]

\* The second loop of perform_calculation, over the proposals in order.
RECURSIVE comparison_transfers(_, _, _)
comparison_transfers(sub, order, i) ==
    IF i > Len(order) \/ sub.raised # "" THEN sub
    ELSE comparison_transfers(
             votes_at_quota(transfer_fraction(read_quota(sub), order[i],
                                              get_transfer_fraction(sub, order[i])),
                            order[i]),
             order, i + 1)

\* perform_calculation from `elect = list(...)` on, for each order of elect.
comparison_elections(sub, compared) ==
    {comparison_transfers(elect_multiple(sub, elect_order, "direct"), elect_order, 1) :
        elect_order \in Iterations(Range(standing_proposals(sub)) \ compared, sub.proposals)}

\* CPOComparisonPoll.perform_calculation: the polls it can leave.
CPOComparisonPoll_perform_calculation(sub, winners, compared) ==
    UNION {comparison_elections(comparison_exclusions(sub, exclude_order, 1), compared) :
              exclude_order \in Iterations(Range(standing_proposals(sub)) \ winners,
                                           sub.proposals)}

\* comparison_poll.calculate() after initial_votes has left the poll counted.
comparison_calculated(counted, winners, compared) ==
    IF counted.raised # "" THEN {counted}
    ELSE CPOComparisonPoll_perform_calculation(counted, winners, compared)

not_excluded(sub) == SelectSeq(sub.proposals, LAMBDA x : ~Contains(sub.excluded, x))

total_except(sub, props) ==
    LET counted == SelectSeq(not_excluded(sub), LAMBDA x : x \notin props)
    IN  DecSum([i \in 1..Len(counted) |-> get_votes(sub, counted[i])])

\* CPOComparisonResult.total(combination), all being the compared proposals
total(sub, all, combination) == total_except(sub, all \ Range(combination))

\* The fields of a CPOComparisonResult of the totals t1 and t2 of compared:
\* sorted() leaves equal totals in the order given.
compared_totals(compared, t1, t2) ==
    IF DecLe(t1, t2)
    THEN [raised |-> "", compared |-> compared, loser |-> compared[1],
          winner |-> compared[2], difference |-> DecSub(t2, t1),
          tied |-> DecSub(t2, t1) = DecZero]
    ELSE [raised |-> "", compared |-> compared, loser |-> compared[2],
          winner |-> compared[1], difference |-> DecSub(t1, t2),
          tied |-> DecSub(t1, t2) = DecZero]

\* CPOComparisonResult(poll, compared) of a calculated poll; an exception of
\* the calculation is there instead of the result.
CPOComparisonResult(sub, compared) ==
    IF sub.raised # ""
    THEN [raised |-> sub.raised, compared |-> compared, loser |-> <<>>,
          winner |-> <<>>, difference |-> DecZero, tied |-> FALSE]
    ELSE compared_totals(compared,
                         total(sub, Range(compared[1]) \cup Range(compared[2]), compared[1]),
                         total(sub, Range(compared[1]) \cup Range(compared[2]), compared[2]))

\* One pass of the loop of get_best_approval, the shuffle of the sub-election
\* leaving its proposals in the order shuffled: the results the duel of the
\* pair combination can have.
duel_shuffled(p, combination, compared, shuffled) ==
    {CPOComparisonResult(sub, combination) :
        sub \in comparison_calculated(initial_votes(CPOComparisonPoll(p, shuffled)),
                                      compared \cup Range(p.elected), compared)}

duel_of(p, combination, compared) ==
    UNION {duel_shuffled(p, combination, compared, shuffled) :
              shuffled \in Shuffles(p.proposals)}

duel(p, combination) ==
    duel_of(p, combination, Range(combination[1]) \cup Range(combination[2]))

possible_outcomes(p) == combinations(standing_proposals(p), seats_to_fill(p))

\* The lists duels the loop over pairs[i], pairs[i + 1], ... can build.
RECURSIVE duels_from(_, _, _)
duels_from(p, pairs, i) ==
    IF i > Len(pairs) THEN {<<>>}
    ELSE {<<d>> \o rest : d \in duel(p, pairs[i]), rest \in duels_from(p, pairs, i + 1)}

all_duels(p) == duels_from(p, combinations(possible_outcomes(p), 2), 1)

\* The exception of the first sub-election that raised one, "" if none did.
first_raised(ds) ==
    IF \A i \in 1..Len(ds) : ds[i].raised = "" THEN ""
    ELSE ds[CHOOSE i \in 1..Len(ds) :
                /\ ds[i].raised # ""
                /\ \A j \in 1..(i - 1) : ds[j].raised = ""].raised

losses(ds) == {ds[i].loser : i \in 1..Len(ds)}
                 \cup {ds[i].winner : i \in {j \in 1..Len(ds) : ds[j].tied}}

wins(ds) == {ds[i].winner : i \in {j \in 1..Len(ds) : ~ds[j].tied}}

undefeated(ds) == wins(ds) \ losses(ds)

\* A check that finds no clear winner in any duels.
get_duels_winner_overlooked(ds) == <<>>

\* A check that counts a tied duel as a loss of the first of its two
\* outcomes only.
get_duels_winner_ties_ignored(ds) ==
    IF Cardinality(wins(ds) \ {ds[i].loser : i \in 1..Len(ds)}) = 1
    THEN CHOOSE x \in wins(ds) \ {ds[i].loser : i \in 1..Len(ds)} : TRUE
    ELSE <<>>

\* get_duels_winner: the combination, or the empty list.
get_duels_winner(ds) ==
    IF Cardinality(undefeated(ds)) = 1 THEN CHOOSE x \in undefeated(ds) : TRUE ELSE <<>>

\* graph[x] of resolve_tie_minimax, as a set
graph(ds, x) ==
    {ds[i].winner : i \in {j \in 1..Len(ds) : ds[j].loser = x}}
       \cup {ds[i].loser : i \in {j \in 1..Len(ds) : ds[j].tied /\ ds[j].winner = x}}

nodes(ds) == {ds[i].loser : i \in 1..Len(ds)} \cup {ds[i].winner : i \in 1..Len(ds)}

\* The nodes a path of k edges or fewer leads to from the nodes of from.
RECURSIVE reached(_, _, _)
reached(ds, from, k) ==
    IF k = 0 THEN from
    ELSE reached(ds, from \cup UNION {graph(ds, x) : x \in from}, k - 1)

component(ds, x) ==
    {y \in reached(ds, {x}, Len(ds)) : x \in reached(ds, {y}, Len(ds))}

\* A library that returns first a component that no edge enters.
tarjan_source(ds) ==
    {component(ds, x) : x \in {y \in nodes(ds) :
        \A z \in nodes(ds) \ component(ds, y) : graph(ds, z) \cap component(ds, y) = {}}}

\* tarjan(graph)[0]: the library returns the strongly connected components
\* in reverse topological order, so no edge leaves the first of them.
tarjan_first(ds) ==
    {component(ds, x) : x \in {y \in nodes(ds) :
        \A z \in component(ds, y) : graph(ds, z) \subseteq component(ds, y)}}

\* The duels where proposals loses or ties.
defeats(ds, props) ==
    SelectSeq(ds, LAMBDA d : d.loser = props \/ (d.tied /\ d.winner = props))

\* max(d.difference for d in ds) of a non-empty ds
biggest_defeat(ds) ==
    ds[CHOOSE i \in 1..Len(ds) : \A j \in 1..Len(ds) : DecLe(ds[j].difference, ds[i].difference)].difference

\* resolve_tie_minimax up to `ties`, for the component smith_set: max() of
\* no defeat raises ValueError.
minimax_ties(ds, smith_set) ==
    IF \E x \in smith_set : defeats(ds, x) = <<>>
    THEN [raised |-> "ValueError", ties |-> {}]
    ELSE [raised |-> "",
          ties |-> {x \in smith_set : \A y \in smith_set :
                       DecLe(biggest_defeat(defeats(ds, x)), biggest_defeat(defeats(ds, y)))}]

\* CPO_STV.choice and the return of resolve_tie_minimax: the poll after it
\* and the outcome it returns.
minimax_choice(p, m) ==
    IF m.raised # "" THEN {[poll |-> [p EXCEPT !.raised = m.raised], best |-> <<>>]}
    ELSE IF Cardinality(m.ties) = 1 THEN {[poll |-> p, best |-> x] : x \in m.ties}
    ELSE IF ~p.random_in_tiebreaks
    THEN {[poll |-> [p EXCEPT !.raised = "IncompleteResult"], best |-> <<>>]}
    ELSE {[poll |-> [p EXCEPT !.randomized = <<TRUE>>], best |-> x] : x \in m.ties}

resolve_tie_minimax(p, ds) ==
    UNION {minimax_choice(p, minimax_ties(ds, smith_set)) : smith_set \in tarjan_first(ds)}

\* get_duels_winner(duels) or resolve_tie_minimax(duels)
best_approval(p, ds) ==
    IF get_duels_winner(ds) # <<>> THEN {[poll |-> p, best |-> get_duels_winner(ds)]}
    ELSE resolve_tie_minimax(p, ds)

\* elect_multiple(get_best_approval(), SelectionMethod.CPO) with what
\* get_best_approval returned or raised.
elect_best(b) ==
    IF b.poll.raised # "" THEN b.poll ELSE elect_multiple(b.poll, b.best, "cpo")

\* [p for p in self.proposals if self.get_votes(p) > self.quota]
above_quota(p) ==
    SelectSeq(p.proposals, LAMBDA x : DecLt(Dec(quota(p)), get_votes(p, x)))

\* CPO_STV.perform_calculation up to the call of get_best_approval; the
\* comprehension reads the quota.
elect_above_quota(p) == elect_multiple(read_quota(p), above_quota(p), "direct")

(***************************************************************************)
(* The state: the fields of one election and of its result, where the      *)
(* caller stands (pc), the exception raised last (raised), and the list    *)
(* the loop of elect_multiple runs over (pending).                         *)
(*   pc = "new"            no election constructed yet                     *)
(*        "ingest"         constructed; add_ballot, as_dict, calculate     *)
(*        "rounds"         in the loop of perform_calculation              *)
(*        "elect_multiple" in the loop of elect_multiple (pedantic_order)  *)
(*        "cpo"            in perform_calculation of CPO_STV               *)
(*        "duels"          the duels of get_best_approval are done         *)
(*        "finish"         perform_calculation has returned or its         *)
(*                         IncompleteResult was suppressed                 *)
(*        "done"           calculate() has returned                        *)
(*        "failed"         the exception in raised reached the caller      *)
(***************************************************************************)
VARIABLES pc, raised, pending, variant, proposals, seats, pedantic_order,
          _quota_function, _quota, quota_calls, tiebreakers, votes, excluded,
          ballots, votes_transferred, rounds, elected, transfer_log, randomized,
          random_list, result_exhausted, empty_ballot_count, random_in_tiebreaks,
          duels

vars == <<pc, raised, pending, variant, proposals, seats, pedantic_order,
          _quota_function, _quota, quota_calls, tiebreakers, votes, excluded,
          ballots, votes_transferred, rounds, elected, transfer_log, randomized,
          random_list, result_exhausted, empty_ballot_count, random_in_tiebreaks,
          duels>>

config == <<variant, proposals, seats, pedantic_order, _quota_function, tiebreakers>>

Self ==
    [raised |-> raised, pending |-> pending, variant |-> variant,
     proposals |-> proposals, seats |-> seats, pedantic_order |-> pedantic_order,
     _quota_function |-> _quota_function, _quota |-> _quota,
     quota_calls |-> quota_calls, tiebreakers |-> tiebreakers, votes |-> votes,
     excluded |-> excluded, ballots |-> ballots,
     votes_transferred |-> votes_transferred, rounds |-> rounds,
     elected |-> elected, transfer_log |-> transfer_log, randomized |-> randomized,
     random_list |-> random_list, exhausted |-> result_exhausted,
     empty_ballot_count |-> empty_ballot_count,
     random_in_tiebreaks |-> random_in_tiebreaks, duels |-> duels]

\* The election becomes the poll p.
Becomes(p) ==
    /\ raised' = p.raised
    /\ pending' = p.pending
    /\ variant' = p.variant
    /\ proposals' = p.proposals
    /\ seats' = p.seats
    /\ pedantic_order' = p.pedantic_order
    /\ _quota_function' = p._quota_function
    /\ _quota' = p._quota
    /\ quota_calls' = p.quota_calls
    /\ tiebreakers' = p.tiebreakers
    /\ votes' = p.votes
    /\ excluded' = p.excluded
    /\ ballots' = p.ballots
    /\ votes_transferred' = p.votes_transferred
    /\ rounds' = p.rounds
    /\ elected' = p.elected
    /\ transfer_log' = p.transfer_log
    /\ randomized' = p.randomized
    /\ random_list' = p.random_list
    /\ result_exhausted' = p.exhausted
    /\ empty_ballot_count' = p.empty_ballot_count
    /\ random_in_tiebreaks' = p.random_in_tiebreaks
    /\ duels' = p.duels

\* Before the constructor has run there is no election: its fields are blank.
Init ==
    LET p == STVPoll("None", 0, <<>>, FALSE, "None", <<>>)
    IN  /\ pc = "new"
        /\ raised = p.raised
        /\ pending = p.pending
        /\ variant = p.variant
        /\ proposals = p.proposals
        /\ seats = p.seats
        /\ pedantic_order = p.pedantic_order
        /\ _quota_function = p._quota_function
        /\ _quota = p._quota
        /\ quota_calls = p.quota_calls
        /\ tiebreakers = p.tiebreakers
        /\ votes = p.votes
        /\ excluded = p.excluded
        /\ ballots = p.ballots
        /\ votes_transferred = p.votes_transferred
        /\ rounds = p.rounds
        /\ elected = p.elected
        /\ transfer_log = p.transfer_log
        /\ randomized = p.randomized
        /\ random_list = p.random_list
        /\ result_exhausted = p.exhausted
        /\ empty_ballot_count = p.empty_ballot_count
        /\ random_in_tiebreaks = p.random_in_tiebreaks
        /\ duels = p.duels

(***************************************************************************)
(* The operations.                                                         *)
(***************************************************************************)
\* IRV(**kwargs), ScottishSTV(**kwargs) and CPO_STV(**kwargs): the defaults
\* of the variant, then STVPoll.__init__, which raises STVException before
\* anything is set up; CPO_STV then marks the result if random is allowed.
\* A constructor without the check of the seats.
ConstructUnchecked(v, s, props, shuffled, pedantic, rand) ==
    /\ pc = "new"
    /\ pc' = "ingest"
    /\ Becomes(STVPoll(v, s, shuffled, pedantic, "droop_quota", <<>>))

Construct(v, s, props, shuffled, pedantic, rand) ==
    LET seats1   == IF v = "IRV" THEN 1 ELSE s
        breakers == IF v = "CPO_STV" THEN <<>>
                    ELSE (IF v = "IRV" THEN <<>> ELSE <<"tiebreak_history">>)
                            \o (IF rand THEN <<"tiebreak_random">> ELSE <<>>)
        quota_fn == CASE v = "IRV" -> "irv_quota"
                      [] v = "ScottishSTV" -> "droop_quota"
                      [] v = "CPO_STV" -> "hagenbach_bischof_quota"
        poll     == STVPoll(v, seats1, shuffled, v # "CPO_STV" /\ pedantic, quota_fn, breakers)
    IN  /\ pc = "new"
        /\ IF Len(props) < seats1
           THEN /\ pc' = "failed"
                /\ Becomes([Self EXCEPT !.raised = "STVException"])
           ELSE /\ pc' = "ingest"
                /\ IF v = "CPO_STV"
                   THEN Becomes([poll EXCEPT !.random_in_tiebreaks = rand,
                                             !.randomized = IF rand THEN <<FALSE>> ELSE <<>>])
                   ELSE Becomes(poll)

\* add_ballot(ranking, count): the election takes ballots while it has room
\* for them.
AddBallot(ranking, count) ==
    /\ pc = "ingest"
    /\ pc' = pc
    /\ IF ranking # <<>>
       THEN Len(ballots) < MaxBallots
       ELSE empty_ballot_count + count <= MaxEmpty
    /\ Becomes(add_ballot(Self, ranking, count))

\* result.as_dict(): of its reads only that of poll.quota changes the state.
AsDict ==
    /\ pc \in {"ingest", "done"}
    /\ _quota = <<>>
    /\ pc' = pc
    /\ Becomes(read_quota(Self))

\* Where control is after a step of calculate() that left the poll p: an
\* IncompleteResult is suppressed, any other exception reaches the caller.
\* A calculate() that suppresses nothing.
Unsuppressed(p) ==
    IF p.raised # "" THEN "failed"
    ELSE IF p.pending # <<>> THEN "elect_multiple"
    ELSE IF p.variant = "CPO_STV" THEN "cpo"
    ELSE "rounds"

Suppress(p) ==
    IF p.raised = "IncompleteResult" THEN "finish"
    ELSE IF p.raised # "" THEN "failed"
    ELSE IF p.pending # <<>> THEN "elect_multiple"
    ELSE IF p.variant = "CPO_STV" THEN "cpo"
    ELSE "rounds"

Returns(p) == pc' = Suppress(p) /\ Becomes(p)

\* calculate(), up to the loop of perform_calculation.
Calculate ==
    /\ pc = "ingest"
    /\ Returns(initial_votes(Self))

\* The lists random.sample can return to an operation, given the poll the
\* operation leaves when it is handed the list as given: the choice exists
\* only in an operation that reaches the random strategy before its list is
\* drawn.
Draws(undrawn) ==
    IF undrawn.random_list = random_list THEN {proposals}
    ELSE Perms(proposals)

\* One pass of `while self.seats_to_fill: self.calculate_round()`.
CalculateRound ==
    /\ pc = "rounds"
    /\ seats_to_fill(Self) # 0
    /\ \E draw \in Draws(calculate_round(Self, proposals)) : Returns(calculate_round(Self, draw))

\* One pass of `while proposals:` in elect_multiple.
ElectNext ==
    /\ pc = "elect_multiple"
    /\ Len(elected) < MaxElected
    /\ \E draw \in Draws(elect_next(Self, proposals)) : Returns(elect_next(Self, draw))

\* Where control is when perform_calculation of CPO_STV has ended with the
\* poll p.
Ends(p) ==
    /\ pc' = IF p.raised \in {"", "IncompleteResult"} THEN "finish" ELSE "failed"
    /\ Becomes(p)

\* get_best_approval up to the end of its loop, for the poll p the election
\* of the proposals above the quota has left: combinations() raises
\* ValueError for a negative number of seats, and an exception of a
\* sub-election reaches the caller.
Duels(p) ==
    IF seats_to_fill(p) = 0 THEN pc' = "duels" /\ Becomes(p)
    ELSE IF seats_to_fill(p) < 0 THEN Ends([p EXCEPT !.raised = "ValueError"])
    ELSE \E ds \in all_duels(p) :
            IF first_raised(ds) # ""
            THEN Ends([p EXCEPT !.raised = first_raised(ds)])
            ELSE pc' = "duels" /\ Becomes([p EXCEPT !.duels = ds])

\* CPO_STV.perform_calculation up to the end of the loop of get_best_approval.
Compare ==
    /\ pc = "cpo"
    /\ IF Len(proposals) = seats
       THEN Ends(elect_multiple(Self, proposals, "direct"))
       ELSE Duels(elect_above_quota(Self))

\* The rest of CPO_STV.perform_calculation: the outcome the duels select is
\* elected.
ElectBest ==
    /\ pc = "duels"
    /\ IF seats_to_fill(Self) = 0 THEN Ends(Self)
       ELSE \E b \in best_approval(Self, duels) : Ends(elect_best(b))

\* perform_calculation has returned or its IncompleteResult was suppressed:
\* result.finish() and the return of calculate().
Finish ==
    /\ \/ pc = "rounds" /\ seats_to_fill(Self) = 0
       \/ pc = "finish"
    /\ pc' = "done"
    /\ Becomes(Self)

Next ==
    \/ \E v \in {"IRV", "ScottishSTV", "CPO_STV"}, s \in 1..MaxSeats,
          props \in ProposalLists, pedantic \in BOOLEAN, rand \in BOOLEAN :
          \E shuffled \in Shuffles(props) :
             Construct(v, s, props, shuffled, pedantic, rand)
    \/ \E ranking \in Rankings, count \in 1..MaxCount : AddBallot(ranking, count)
    \/ AsDict
    \/ Calculate
    \/ CalculateRound
    \/ ElectNext
    \/ Compare
    \/ ElectBest
    \/ Finish

Spec == Init /\ [][Next]_vars

(***************************************************************************)
(* Elections of four proposals under CPO-STV, the ballots coming in blocks. *)
(* For two seats they are the smallest elections in which a proposal is    *)
(* elected above a quota read early and then stands below the quota of the *)
(* comparison sub-elections, which is computed from all the ballots.  For  *)
(* three seats they are the smallest in which a comparison sub-election    *)
(* transfers the surpluses of two elected proposals to the same proposal.  *)
(***************************************************************************)
MaxBlocks == 4

Four == <<"A", "B", "C", "D">>

\* The blocks of ballots of an election for s seats: a ranking and the count
\* of the ballots that have it.
Blocks(s) ==
    IF s = 2
    THEN {[preferences |-> <<"B">>, count |-> 5], [preferences |-> <<"C">>, count |-> 5],
          [preferences |-> <<"D">>, count |-> 5], [preferences |-> <<"A", "B">>, count |-> 6]}
    ELSE {[preferences |-> <<"D", "B">>, count |-> 2], [preferences |-> <<"A", "B">>, count |-> 3],
          [preferences |-> <<"C", "A">>, count |-> 2], [preferences |-> <<"D", "B">>, count |-> 1]}

\* add_ballot(block.preferences, block.count)
AddBlock(block) ==
    /\ pc = "ingest"
    /\ pc' = pc
    /\ Len(ballots) < MaxBlocks
    /\ Becomes(add_ballot(Self, block.preferences, block.count))

NextFour ==
    \/ \E s \in 2..3, shuffled \in Shuffles(Four), rand \in BOOLEAN :
          Construct("CPO_STV", s, Four, shuffled, FALSE, rand)
    \/ \E block \in Blocks(seats) : AddBlock(block)
    \/ AsDict
    \/ Calculate
    \/ Compare
    \/ ElectBest
    \/ Finish

SpecFour == Init /\ [][NextFour]_vars

(***************************************************************************)
(* Elections of four proposals under Scottish STV, the ballots coming in   *)
(* blocks.  For three seats they are the smallest elections in which two   *)
(* elected proposals await the transfer of their surpluses while a seat is *)
(* still to fill, so that the order of the two transfers matters and a     *)
(* transfer can lift a third proposal to the quota.  For two seats they    *)
(* are the smallest in which three standing proposals are tied after a     *)
(* transfer that an earlier snapshot of the log tells apart.               *)
(***************************************************************************)
ScottishBlocks(s) ==
    IF s = 2
    THEN {[preferences |-> <<"A", "B">>, count |-> 2], [preferences |-> <<"A", "C">>, count |-> 2],
          [preferences |-> <<"D">>, count |-> 1], [preferences |-> <<"B", "C">>, count |-> 1]}
    ELSE {[preferences |-> <<"A", "C">>, count |-> 3], [preferences |-> <<"B", "D">>, count |-> 3],
          [preferences |-> <<"A", "C">>, count |-> 4], [preferences |-> <<"B", "D">>, count |-> 2],
          [preferences |-> <<"D", "C">>, count |-> 1]}

NextScottish ==
    \/ \E s \in 2..3, shuffled \in Shuffles(Four), rand \in BOOLEAN :
          Construct("ScottishSTV", s, Four, shuffled, FALSE, rand)
    \/ \E block \in ScottishBlocks(seats) : AddBlock(block)
    \/ AsDict
    \/ Calculate
    \/ CalculateRound
    \/ Finish

SpecScottish == Init /\ [][NextScottish]_vars

(***************************************************************************)
(* Elections of four proposals for three seats under CPO-STV, the ballots  *)
(* coming in blocks: the smallest elections in which a proposal is elected *)
(* above the quota and the transfer of its surplus, in the sub-election of *)
(* a duel, leaves two proposals with votes of 28 decimal places, so that   *)
(* the total of an outcome is a sum of three terms that is rounded.        *)
(***************************************************************************)
DuelBlocks ==
    {[preferences |-> <<"A">>, count |-> 4], [preferences |-> <<"A", "B">>, count |-> 1],
     [preferences |-> <<"A", "C">>, count |-> 1]}

NextDuels ==
    \/ \E shuffled \in Shuffles(Four), rand \in BOOLEAN :
          Construct("CPO_STV", 3, Four, shuffled, FALSE, rand)
    \/ \E block \in DuelBlocks : AddBlock(block)
    \/ AsDict
    \/ Calculate
    \/ Compare
    \/ ElectBest
    \/ Finish

SpecDuels == Init /\ [][NextDuels]_vars

(***************************************************************************)
(* Elections of five proposals under IRV and Scottish STV, the ballots     *)
(* coming in blocks: the smallest elections in which a ballot is reduced   *)
(* by the transfers of four surpluses, so that its value has 20 decimal    *)
(* places, and is then added to an entry of nine digits before the point:  *)
(* a sum of 29 digits, which the context of 28 digits rounds.              *)
(***************************************************************************)
Five == <<"A", "B", "C", "D", "E">>

LedgerBlocks ==
    {[preferences |-> <<"A", "B", "C", "D", "E">>, count |-> 300000001],
     [preferences |-> <<"E">>, count |-> 8000000]}

NextLedger ==
    \/ \E v \in {"IRV", "ScottishSTV"}, shuffled \in Shuffles(Five) :
          Construct(v, 5, Five, shuffled, FALSE, FALSE)
    \/ \E block \in LedgerBlocks : AddBlock(block)
    \/ AsDict
    \/ Calculate
    \/ CalculateRound
    \/ Finish

SpecLedger == Init /\ [][NextLedger]_vars


(***************************************************************************)
(* Conservation of vote weight.                                           *)
(***************************************************************************)
\* The sum of a ledger, in the order of the proposal list.
LedgerSum(ledger) ==
    LET keys == SelectSeq(proposals, LAMBDA x : x \in DOMAIN ledger)
    IN  DecSum([i \in 1..Len(keys) |-> ledger[keys[i]]])

\* What a snapshot accounts for: ledger, exhausted weight and empty ballots.
Accounted(ledger, exhausted_votes) ==
    DecAdd(DecAdd(LedgerSum(ledger), exhausted_votes), Dec(empty_ballot_count))

AllBallots == Dec(ballot_count(Self) + empty_ballot_count)

\* The proposal whose votes the i-th entry of the transfer log (i > 1) moved:
\* the key transfer_votes popped.
Popped(i) ==
    CHOOSE x \in DOMAIN transfer_log[i - 1].current_votes :
        x \notin DOMAIN transfer_log[i].current_votes

\* One of the first i entries of the log is the transfer of a surplus.
SurplusBy(i) == \E j \in 2..i : Contains(elected, Popped(j))

\* C1 as claimed: at every snapshot recorded during calculate() (every entry
\* of the transfer log, and the ledger as every round snapshot copies it) the
\* ledger values, the exhausted weight and the empty ballots add up to the
\* count of all the ballots added, exactly.
C1_ConservationExact ==
    transfer_log # <<>> =>
        /\ \A i \in DOMAIN transfer_log :
              Accounted(transfer_log[i].current_votes,
                        transfer_log[i].exhausted_votes) = AllBallots
        /\ Accounted(votes, result_exhausted) = AllBallots

\* C1 as the code has it: the snapshots add up exactly until the first
\* surplus of an elected proposal is transferred (so at every snapshot of
\* IRV, which transfers none); from then on, the popped entry of the elected
\* proposal being gone from the ledger, they never add up to more than the
\* count of all the ballots.
C1_ConservationUntilSurplus ==
    transfer_log # <<>> =>
        /\ \A i \in DOMAIN transfer_log :
              /\ ~SurplusBy(i) =>
                    Accounted(transfer_log[i].current_votes,
                              transfer_log[i].exhausted_votes) = AllBallots
              /\ DecLe(Accounted(transfer_log[i].current_votes,
                                 transfer_log[i].exhausted_votes), AllBallots)
        /\ ~SurplusBy(Len(transfer_log)) => Accounted(votes, result_exhausted) = AllBallots
        /\ DecLe(Accounted(votes, result_exhausted), AllBallots)

\* A count has returned after the transfer of a surplus that was rounded, with
\* weight gone to the exhausted pile and the snapshots short of the ballots.
C1_Witness ==
    /\ pc = "done"
    /\ SurplusBy(Len(transfer_log))
    /\ result_exhausted # DecZero
    /\ result_exhausted.e > 1
    /\ DecLt(Accounted(votes, result_exhausted), AllBallots)

(***************************************************************************)
(* The sub-elections of the duels, step by step.  A pass of a loop of      *)
(* CPOComparisonPoll.perform_calculation is a step: the state after k      *)
(* passes is the loop run over the first k items.                          *)
(***************************************************************************)
\* The election as CPO_STV.perform_calculation hands it to get_best_approval
\* when it is about to run duels, and the sub-elections these duels count.
AboutToDuel ==
    /\ pc = "cpo"
    /\ Len(proposals) # seats
    /\ seats_to_fill(elect_above_quota(Self)) > 0

CountedOf(p) ==
    {[poll |-> initial_votes(CPOComparisonPoll(p, shuffled)),
      compared |-> Range(c[1]) \cup Range(c[2]),
      winners |-> Range(c[1]) \cup Range(c[2]) \cup Range(p.elected)] :
        shuffled \in Shuffles(p.proposals),
        c \in Range(combinations(possible_outcomes(p), 2))}

Counted == IF AboutToDuel THEN CountedOf(elect_above_quota(Self)) ELSE {}

ExclusionSteps(sub, order) ==
    {<<comparison_exclusions(sub, SubSeq(order, 1, k - 1), 1),
       comparison_exclusions(sub, SubSeq(order, 1, k), 1)>> : k \in 1..Len(order)}

TransferSteps(sub, order) ==
    {<<sub, elect_multiple(sub, order, "direct")>>}
       \cup {<<comparison_transfers(elect_multiple(sub, order, "direct"),
                                    SubSeq(order, 1, k - 1), 1),
               comparison_transfers(elect_multiple(sub, order, "direct"),
                                    SubSeq(order, 1, k), 1)>> : k \in 1..Len(order)}

ElectionSteps(sub, compared) ==
    UNION {TransferSteps(sub, order) :
              order \in Iterations(Range(standing_proposals(sub)) \ compared, sub.proposals)}

StepsOf(c) ==
    UNION {ExclusionSteps(c.poll, order)
              \cup ElectionSteps(comparison_exclusions(c.poll, order, 1), c.compared) :
           order \in Iterations(Range(standing_proposals(c.poll)) \ c.winners,
                                c.poll.proposals)}

\* The steps <<before, after>> of the sub-elections of the present duels.
SubSteps == UNION {StepsOf(c) : c \in Counted}

(***************************************************************************)
(* Status partition.                                                       *)
(***************************************************************************)
Statuses(p, x) ==
    {st \in {"hopeful", "elected", "excluded"} :
        \/ st = "hopeful" /\ Contains(standing_proposals(p), x)
        \/ st = "elected" /\ Contains(p.elected, x)
        \/ st = "excluded" /\ Contains(p.excluded, x)}

Partitioned(p) ==
    /\ \A x \in Range(p.proposals) : Cardinality(Statuses(p, x)) = 1
    /\ Range(p.elected) \cup Range(p.excluded) \subseteq Range(p.proposals)

\* From the poll p to the poll q nobody leaves elected or excluded, and who
\* joins them was hopeful in p.
OneWay(p, q) ==
    /\ Range(p.elected) \subseteq Range(q.elected)
    /\ Range(p.excluded) \subseteq Range(q.excluded)
    /\ (Range(q.elected) \cup Range(q.excluded)) \ (Range(p.elected) \cup Range(p.excluded))
          \subseteq Range(standing_proposals(p))

\* C2: in every state of calculate(), of the election and of the comparison
\* sub-elections of its duels, every proposal is in exactly one of hopeful,
\* elected and excluded, and every step takes proposals from hopeful to
\* elected or to excluded only, so that elected and excluded only grow.
C2_StatusPartition ==
    /\ [](/\ Partitioned(Self)
          /\ \A st \in SubSteps :
                Partitioned(st[1]) /\ Partitioned(st[2]) /\ OneWay(st[1], st[2]))
    /\ [][pc # "new" => OneWay(Self, Self')]_vars

\* A round has ended with a proposal of each status.
C2_Witness ==
    /\ pc = "rounds"
    /\ elected # <<>>
    /\ excluded # <<>>
    /\ standing_proposals(Self) # <<>>

(***************************************************************************)
(* Termination of the round engine.                                        *)
(***************************************************************************)
\* The loop of STVRoundsPoll.perform_calculation has been entered.
InRounds ==
    /\ variant \in {"IRV", "ScottishSTV"}
    /\ pc \in {"rounds", "elect_multiple", "finish", "done"}

\* The executions of calculate_round that have changed the election: each
\* election and each exclusion opens a round, each exclusion and each
\* transfer of a surplus adds an entry to the transfer log after the first.
Executions == Len(rounds) + (Len(transfer_log) - 1 - Len(excluded))

\* An execution of calculate_round has returned to the loop.
RoundReturned == pc = "rounds" /\ pc' = "rounds"

Awaiting(p) == Len(get_transferable_proposals(p))

\* C3 as claimed: every execution of calculate_round strictly reduces
\* seats_to_fill or the number of standing proposals, and the loop runs at
\* most as many executions as there are proposals.
C3_EveryRoundReduces ==
    /\ [][RoundReturned =>
             \/ seats_to_fill(Self)' < seats_to_fill(Self)
             \/ Len(standing_proposals(Self))' < Len(standing_proposals(Self))]_vars
    /\ [](InRounds => Executions <= Len(proposals))

\* C3 as the code has it: an execution of calculate_round that returns
\* reduces seats_to_fill, the number of standing proposals, or the number of
\* elected proposals whose surplus awaits its transfer (a round of Scottish
\* STV that transfers a surplus reduces only the last), and twice the
\* standing proposals plus the awaiting ones strictly decreases; IRV runs at
\* most as many executions as there are proposals, Scottish STV at most twice
\* as many; under pedantic_order the loop of elect_multiple never returns to
\* the loop of the rounds.
C3_RoundsReduce ==
    /\ [][RoundReturned =>
             /\ \/ seats_to_fill(Self)' < seats_to_fill(Self)
                \/ Len(standing_proposals(Self))' < Len(standing_proposals(Self))
                \/ Awaiting(Self)' < Awaiting(Self)
             /\ 2 * Len(standing_proposals(Self))' + Awaiting(Self)'
                   < 2 * Len(standing_proposals(Self)) + Awaiting(Self)
             /\ variant = "IRV" =>
                   \/ seats_to_fill(Self)' < seats_to_fill(Self)
                   \/ Len(standing_proposals(Self))' < Len(standing_proposals(Self))]_vars
    /\ [](InRounds => Executions <= IF variant = "IRV" THEN Len(proposals)
                                    ELSE 2 * Len(proposals))
    /\ [][pc = "elect_multiple" => pc' # "rounds"]_vars

\* A count of Scottish STV has returned after more executions of
\* calculate_round than there are proposals, one of them the transfer of a
\* surplus.
C3_Witness ==
    /\ pc = "done"
    /\ variant = "ScottishSTV"
    /\ Executions > Len(proposals)
    /\ \E x \in Range(elected) : x \in votes_transferred

(***************************************************************************)
(* The unresolved-tie signal.                                              *)
(***************************************************************************)
IsPrefix(s, t) == Len(s) <= Len(t) /\ SubSeq(t, 1, Len(s)) = s

\* C4: IncompleteResult never reaches the caller of calculate(): wherever it
\* is raised (the tie-break chain exhausted, no majority attainable in IRV, a
\* random choice CPO-STV may not make), calculate() goes on to return, the
\* result is not complete, and the rounds and the elected proposals recorded
\* before the signal are still there.
C4_IncompleteResultSuppressed ==
    /\ [](raised = "IncompleteResult" => pc \in {"finish", "done"} /\ ~is_complete(Self))
    /\ [][raised' = "IncompleteResult" =>
             IsPrefix(rounds, rounds') /\ IsPrefix(elected, elected')]_vars
    /\ [][pc = "finish" => pc' = "done"]_vars

\* A count has returned after the signal, with a round and an elected
\* proposal recorded before it.
C4_Witness ==
    /\ pc = "done"
    /\ raised = "IncompleteResult"
    /\ rounds # <<>>
    /\ elected # <<>>

(***************************************************************************)
(* Ballots that rank an unknown proposal.                                  *)
(***************************************************************************)
\* C5: add_ballot fails with the unknown-candidate error whenever a proposal
\* of the ranking, at any position, is no proposal of the election, and then
\* ingests nothing: no ballot of the ballot list ranks an unknown proposal.
C5_UnknownCandidateRejected ==
    \A i \in DOMAIN ballots : Range(ballots[i].preferences) \subseteq Range(proposals)

(***************************************************************************)
(* Construction.                                                           *)
(***************************************************************************)
\* C6: constructing an election of any variant with fewer proposals than
\* seats (IRV counting one seat whatever it is given) raises STVException and
\* leaves no election, with which nothing can then be done; with as many
\* proposals as seats or more it yields the election of these proposals and
\* seats.
C6_ConstructChecksSeats ==
    /\ [][pc = "new" =>
          \A v \in {"IRV", "ScottishSTV", "CPO_STV"}, s \in 1..MaxSeats,
             props \in ProposalLists, pedantic \in BOOLEAN, rand \in BOOLEAN :
             \A shuffled \in Shuffles(props) :
                Construct(v, s, props, shuffled, pedantic, rand) =>
                   IF Len(props) < (IF v = "IRV" THEN 1 ELSE s)
                   THEN /\ pc' = "failed"
                        /\ raised' = "STVException"
                        /\ variant' = "None"
                        /\ proposals' = <<>>
                   ELSE /\ pc' = "ingest"
                        /\ raised' = ""
                        /\ variant' = v
                        /\ proposals' = shuffled
                        /\ seats' = (IF v = "IRV" THEN 1 ELSE s)]_vars
    /\ [][pc # "failed"]_vars

\* A construction has failed for want of proposals.
C6_Witness ==
    /\ pc = "failed"
    /\ raised = "STVException"
    /\ variant = "None"

(***************************************************************************)
(* Ballot monotonicity.                                                    *)
(***************************************************************************)
\* The multiplier of the ballot is in [0, 1] and its cursor within its ranking
\* or just past the end of it.
InUnit(b) ==
    /\ DecLe(DecZero, b.multiplier)
    /\ DecLe(b.multiplier, DecOne)
    /\ b.index \in 0..Len(b.preferences)

\* get_transfer_preference of an exhausted ballot returns None and leaves the
\* ballot as it is, whatever proposals stand.
StaysExhausted(b, among) ==
    exhausted(b) =>
        \A standing \in UNION {Perms(SelectSeq(among, LAMBDA x : x \in set)) :
                                  set \in SUBSET Range(among)} :
            get_transfer_preference(b, standing) = [ballot |-> b, pref |-> NoProposal]

\* The ballot b has become the ballot c.
BallotStep(b, c) ==
    /\ c.preferences = b.preferences
    /\ c.count = b.count
    /\ DecLe(c.multiplier, b.multiplier)
    /\ b.index <= c.index
    /\ exhausted(b) => c = b

BallotsStep(bs, cs) ==
    /\ DOMAIN bs \subseteq DOMAIN cs
    /\ \A i \in DOMAIN bs : BallotStep(bs[i], cs[i])

BallotsSound(p) ==
    \A i \in DOMAIN p.ballots : InUnit(p.ballots[i]) /\ StaysExhausted(p.ballots[i], p.proposals)

\* C7: over the calls of decrease_value and get_transfer_preference the
\* engines make, in the election and in the comparison sub-elections of the
\* duels of CPO-STV, the multiplier of every ballot stays in [0, 1] and never
\* increases, its cursor never moves backward, and an exhausted ballot stays
\* exhausted: get_transfer_preference returns none for it and changes
\* nothing, and no step changes it.
C7_BallotMonotonicity ==
    /\ [](/\ BallotsSound(Self)
          /\ \A st \in SubSteps :
                /\ BallotsSound(st[1])
                /\ BallotsSound(st[2])
                /\ BallotsStep(st[1].ballots, st[2].ballots))
    /\ [][pc # "new" => BallotsStep(ballots, ballots')]_vars

(***************************************************************************)
(* The quota is computed once.                                             *)
(***************************************************************************)
\* From the poll p to the poll q the quota function was called at most once,
\* and not at all if p had its quota; the quota p had is the quota of q.
QuotaKept(p, q) ==
    /\ p.quota_calls <= q.quota_calls
    /\ p._quota # <<>> => q._quota = p._quota /\ q.quota_calls = p.quota_calls

\* The poll has called its quota function once if it has a quota and never
\* if it has none, and a read of the quota returns the quota it has.
QuotaOnce(p) ==
    /\ p.quota_calls = (IF p._quota = <<>> THEN 0 ELSE 1)
    /\ p._quota # <<>> => quota(p) = p._quota[1] /\ read_quota(p) = p

\* C8: an election calls its quota function at most once, on the first read
\* of quota; every later read, during calculate() and after it, returns the
\* value of the first, whatever has become of the ballots, the standing
\* proposals, the ledger and the elected list since.  The same holds of each
\* comparison sub-election, an election of its own.
C8_QuotaComputedOnce ==
    /\ [](/\ QuotaOnce(Self)
          /\ \A st \in SubSteps :
                QuotaOnce(st[1]) /\ QuotaOnce(st[2]) /\ QuotaKept(st[1], st[2]))
    /\ [][pc # "new" => QuotaKept(Self, Self')]_vars

\* calculate() has returned having elected and transferred with the quota of
\* a read before the last ballots were added: not what the quota function
\* gives for the ballots counted.
C8_Witness ==
    /\ pc = "done"
    /\ quota_calls = 1
    /\ _quota # <<>>
    /\ _quota[1] # quota_function(Self)
    /\ elected # <<>>
    /\ Len(transfer_log) > 1

(***************************************************************************)
(* Empty rankings.                                                         *)
(***************************************************************************)
\* The quota function of the election p if no empty ballot had been added.
QuotaWithoutEmpty(p) == quota_function([p EXCEPT !.empty_ballot_count = 0])

\* C9: add_ballot with an empty ranking adds count to the empty-ballot
\* counter and changes nothing else (the ballot list, so ballot_count, and
\* the ledger among it), and the quota an election of any variant comes to
\* use, fixed at its first read, is what its quota function gives without the
\* empty ballots.
C9_EmptyRankingOnlyCounted ==
    /\ [][\A count \in 1..MaxCount :
            AddBallot(<<>>, count) =>
               /\ Self' = [Self EXCEPT !.empty_ballot_count = @ + count]
               /\ ballot_count(Self') = ballot_count(Self)
               /\ pc' = pc]_vars
    /\ [][(pc # "new" /\ _quota = <<>> /\ _quota' # <<>>) =>
             _quota'[1] = QuotaWithoutEmpty(Self)]_vars

(***************************************************************************)
(* Determinism.                                                            *)
(***************************************************************************)
\* The lists of duels get_best_approval can build when the shuffle of every
\* sub-election leaves the proposals in the order shuffled.
RECURSIVE DuelsShuffled(_, _, _, _)
DuelsShuffled(p, pairs, i, shuffled) ==
    IF i > Len(pairs) THEN {<<>>}
    ELSE {<<d>> \o rest :
             d \in duel_shuffled(p, pairs[i],
                                 Range(pairs[i][1]) \cup Range(pairs[i][2]), shuffled),
             rest \in DuelsShuffled(p, pairs, i + 1, shuffled)}

\* What perform_calculation of CPO_STV leaves of the election p for the duels
\* ds: the exception raised, if any, and the result, for each proposal the
\* random choice can take where one is made.
Endings(p, ds) ==
    IF first_raised(ds) # "" THEN {[raised |-> first_raised(ds), result |-> as_dict(p)]}
    ELSE {[raised |-> elect_best(b).raised, result |-> as_dict(elect_best(b))] :
             b \in best_approval(p, ds)}

DuelsDetermined(p) ==
    \A shuffled \in Shuffles(p.proposals) :
       \A ds1, ds2 \in DuelsShuffled(p, combinations(possible_outcomes(p), 2), 1, shuffled) :
          Endings(p, ds1) = Endings(p, ds2)

\* C10: calculate() on the same proposals, ballots, quota function and
\* tie-break chain, with the same random draws, gives the same result (rounds,
\* elected, completion, quota, metadata).  In the rounds of IRV and Scottish
\* STV the result of a step is that of the state it is taken in and of the
\* permutation the Random strategy has drawn, in the list of elect_multiple
\* likewise; in CPO-STV, the shuffle of every sub-election leaving the
\* proposals in one order, the duels determine one set of results for the
\* random choice to take from.
C10_Determinism ==
    /\ [](AboutToDuel => DuelsDetermined(elect_above_quota(Self)))
    /\ [][(pc = "rounds" /\ pc' # "done") =>
             \A draw \in Perms(proposals) :
                calculate_round(Self, draw).random_list = random_list' =>
                   /\ raised' = calculate_round(Self, draw).raised
                   /\ as_dict(Self') = as_dict(calculate_round(Self, draw))]_vars
    /\ [][pc = "elect_multiple" =>
             \A draw \in Perms(proposals) :
                elect_next(Self, draw).random_list = random_list' =>
                   /\ raised' = elect_next(Self, draw).raised
                   /\ as_dict(Self') = as_dict(elect_next(Self, draw))]_vars

(***************************************************************************)
(* The provenance of randomness.                                           *)
(***************************************************************************)
\* Randomness is allowed to the election: its chain ends with the Random
\* strategy, or it is a CPO_STV with random_in_tiebreaks.
RandomAllowed(p) == Contains(p.tiebreakers, "tiebreak_random") \/ p.random_in_tiebreaks

\* The step selects a proposal by the Random strategy: the round it selects
\* in records the method.
RandomSelection ==
    /\ pc \in {"rounds", "elect_multiple"}
    /\ rounds' # rounds
    /\ rounds'[Len(rounds')].selection_method = "tiebreak_random"

\* The step calls choice() on several outcomes tied at the minimax step.
RandomChoice ==
    /\ pc = "duels"
    /\ seats_to_fill(Self) # 0
    /\ get_duels_winner(duels) = <<>>
    /\ \E smith_set \in tarjan_first(duels) :
          /\ minimax_ties(duels, smith_set).raised = ""
          /\ Cardinality(minimax_ties(duels, smith_set).ties) > 1
          /\ elected' \in {elected \o sorted_by_votes(Self, x) :
                              x \in minimax_ties(duels, smith_set).ties}

KnownRankings(p) ==
    \A i \in DOMAIN p.ballots : Range(p.ballots[i].preferences) \subseteq Range(p.proposals)

\* C12: with randomness allowed, the default quota and pedantic_order false,
\* calculate() of Scottish STV and of CPO-STV, over any ballots that rank
\* proposals of the election, ends in no other way than by returning a
\* complete result: no exception reaches the caller, and perform_calculation
\* is left only with exactly `seats` proposals elected.
C12_CompletesWithRandomness ==
    (/\ variant \in {"ScottishSTV", "CPO_STV"}
     /\ RandomAllowed(Self)
     /\ ~pedantic_order
     /\ KnownRankings(Self)
     /\ pc \in {"finish", "done", "failed"})
        => (pc # "failed" /\ is_complete(Self))

(***************************************************************************)
(* Ties left unresolved where randomness is disallowed.                    *)
(***************************************************************************)
\* calculate() has returned after an IncompleteResult raised for a tie: by
\* resolve_tie at the end of the chain or by choice() of CPO_STV, not by the
\* round of IRV that finds one proposal standing below the quota.
TieUnresolved ==
    /\ pc = "done"
    /\ raised = "IncompleteResult"
    /\ variant = "IRV" => Len(standing_proposals(Self)) > 1

\* C13: with randomness disallowed, when a tie arises that the strategies of
\* the chain do not reduce to one proposal, or the minimax step of CPO-STV
\* leaves several outcomes tied, calculate() returns a result whose as_dict
\* has complete false and randomized false.
C13_IncompleteWithoutRandomness ==
    (TieUnresolved /\ ~RandomAllowed(Self)) =>
        /\ as_dict(Self).complete = FALSE
        /\ as_dict(Self).randomized = <<FALSE>>

(***************************************************************************)
(* Scottish STV: election before transfer.                                 *)
(***************************************************************************)
\* The step is a round of Scottish STV.
ScottishRound == variant = "ScottishSTV" /\ pc = "rounds" /\ seats_to_fill(Self) # 0

\* The round transfers votes without excluding: a surplus transfer.
SurplusTransfer ==
    /\ ScottishRound
    /\ transfer_log' # transfer_log
    /\ excluded' = excluded

\* C14: a round of Scottish STV transfers a surplus only if no standing
\* proposal has votes >= quota, and then the surplus of exactly one elected
\* proposal awaiting its transfer, and it elects nobody; a round in which
\* standing proposals are at the quota elects them and transfers nothing (so
\* a proposal that a transfer lifts to the quota is elected before the next
\* surplus is transferred); and a round excludes only if no elected
\* proposal awaits its transfer.
C14_ElectionBeforeTransfer ==
    [][ScottishRound =>
          /\ SurplusTransfer =>
                /\ standing_above_quota(Self) = <<>>
                /\ Len(transfer_log') = Len(transfer_log) + 1
                /\ \E x \in Range(get_transferable_proposals(Self)) :
                      votes_transferred' = votes_transferred \cup {x}
                /\ elected' = elected
          /\ standing_above_quota(Self) # <<>> =>
                /\ transfer_log' = transfer_log
                /\ excluded' = excluded
                /\ votes_transferred' = votes_transferred
                /\ IF pedantic_order
                   THEN pending' = standing_above_quota(Self)
                   ELSE Range(elected') = Range(elected) \cup Range(standing_above_quota(Self))
          /\ excluded' # excluded =>
                /\ get_transferable_proposals(Self) = <<>>
                /\ standing_above_quota(Self) = <<>>]_vars

\* Two proposals were elected in the first round; the surplus of one was
\* transferred and lifted a third proposal to the quota, which the second
\* round elected while the other of the two still awaited its transfer.
C14_Witness ==
    /\ variant = "ScottishSTV"
    /\ pc = "done"
    /\ Len(rounds) = 2
    /\ Len(rounds[1].selected) = 2
    /\ rounds[2].status = "elected"
    /\ rounds[2].selection_method = "direct"
    /\ Len(transfer_log) = 2
    /\ get_transferable_proposals(Self) # <<>>
    /\ \E x \in Range(rounds[2].selected) : DecLt(rounds[1].votes[x], Dec(quota(Self)))

(***************************************************************************)
(* Scottish STV: the order of the surplus transfers.                       *)
(***************************************************************************)
\* The proposal whose votes the step transfers.
Transferred == CHOOSE x \in Range(proposals) : votes_transferred' = votes_transferred \cup {x}

\* The proposals awaiting their transfer that have the votes of x.
AwaitingWith(x) ==
    SelectSeq(get_transferable_proposals(Self), LAMBDA y : votes[y] = votes[x])

\* The step goes on from what the chain decided between the tied proposals:
\* it is their proposal whose surplus is transferred, and the result is
\* marked as the chain marked it.
DecidedByChain(ties) ==
    \E draw \in Perms(proposals) :
       /\ resolve_tie(Self, ties, TRUE, draw).raised = ""
       /\ resolve_tie(Self, ties, TRUE, draw).proposal = Transferred
       /\ randomized' = resolve_tie(Self, ties, TRUE, draw).poll.randomized
       /\ random_list' = resolve_tie(Self, ties, TRUE, draw).poll.random_list

\* C15: the proposal whose surplus a round of Scottish STV transfers has the
\* most votes among the elected proposals awaiting their transfer, and where
\* several of them have these votes the choice between them is the one the
\* tie-break chain makes (History, then Random), a choice made at random
\* being recorded as randomized = true.
C15_TransferOrder ==
    [][SurplusTransfer =>
          /\ \A y \in Range(get_transferable_proposals(Self)) :
                DecLe(votes[y], votes[Transferred])
          /\ Len(AwaitingWith(Transferred)) > 1 =>
                DecidedByChain(AwaitingWith(Transferred))]_vars

(***************************************************************************)
(* Exclusion.                                                              *)
(***************************************************************************)
\* The step is a round of IRV or Scottish STV that excludes a proposal.
Exclusion ==
    /\ variant \in {"IRV", "ScottishSTV"}
    /\ pc = "rounds"
    /\ excluded' # excluded

\* The standing proposals that have the votes of x.
StandingWith(x) == SelectSeq(standing_proposals(Self), LAMBDA y : votes[y] = votes[x])

\* The step excludes x as the proposal the chain, called to prefer the
\* lowest, returns for the tied proposals, with the method and the mark of
\* the strategy that decided.
ExcludedByChain(x, ties) ==
    \E draw \in Perms(proposals) :
       /\ resolve_tie(Self, ties, FALSE, draw).raised = ""
       /\ resolve_tie(Self, ties, FALSE, draw).proposal = x
       /\ rounds'[Len(rounds')].selection_method = resolve_tie(Self, ties, FALSE, draw).method
       /\ randomized' = resolve_tie(Self, ties, FALSE, draw).poll.randomized
       /\ random_list' = resolve_tie(Self, ties, FALSE, draw).poll.random_list

\* The step moves every ballot that stood at x, at its full value, to its
\* next standing preference or to the exhausted total, and takes x off the
\* ledger: what the ledger and the exhausted total hold together is unchanged.
TransferredInFull(x) ==
    /\ Len(transfer_log') = Len(transfer_log) + 1
    /\ votes_transferred' = votes_transferred \cup {x}
    /\ DOMAIN votes' = DOMAIN votes \ {x}
    /\ \A i \in DOMAIN ballots :
          /\ ballots'[i].multiplier = ballots[i].multiplier
          /\ current_preference(ballots'[i]) # x
          /\ current_preference(ballots[i]) # x => ballots'[i] = ballots[i]
    /\ DecAdd(LedgerSum(votes'), result_exhausted') = DecAdd(LedgerSum(votes), result_exhausted)

\* C16: whenever a round of IRV or Scottish STV excludes a proposal, it
\* excludes one proposal, which is standing, has votes below the quota and no
\* more votes than any other standing proposal; where several standing
\* proposals have the fewest votes it is the one the tie-break chain returns
\* for them when called to prefer the lowest, and otherwise the selection is
\* direct; and the same round transfers all its weight, at fraction 1.
C16_ExclusionOfTheLowest ==
    [][Exclusion =>
          /\ Len(excluded') = Len(excluded) + 1
          /\ SubSeq(excluded', 1, Len(excluded)) = excluded
          /\ LET x == excluded'[Len(excluded')]
             IN  /\ Contains(standing_proposals(Self), x)
                 /\ DecLt(votes[x], Dec(quota(Self)))
                 /\ \A y \in Range(standing_proposals(Self)) : DecLe(votes[x], votes[y])
                 /\ rounds'[Len(rounds')].status = "excluded"
                 /\ rounds'[Len(rounds')].selected = <<x>>
                 /\ IF Len(StandingWith(x)) > 1
                    THEN ExcludedByChain(x, StandingWith(x))
                    ELSE /\ rounds'[Len(rounds')].selection_method = "direct"
                         /\ randomized' = randomized
                 /\ TransferredInFull(x)]_vars

\* calculate() has returned a complete result after an exclusion that the
\* chain decided between proposals tied for the fewest votes, and whose
\* ballots went on to a standing proposal.
C16_Witness ==
    /\ pc = "done"
    /\ is_complete(Self)
    /\ \E i \in DOMAIN rounds :
          /\ rounds[i].status = "excluded"
          /\ rounds[i].selection_method = "tiebreak_random"
    /\ \E i \in DOMAIN transfer_log :
          /\ transfer_log[i].transfers # <<>>
          /\ DOMAIN transfer_log[i].transfers[1] # {}
          /\ ~Contains(elected, Popped(i))

(***************************************************************************)
(* Scottish STV: no competition left.                                      *)
(***************************************************************************)
\* A round of Scottish STV in which no standing proposal is at the quota, no
\* elected proposal awaits its transfer and the standing proposals are as
\* many as the seats to fill.
NoCompetition ==
    /\ ScottishRound
    /\ standing_above_quota(Self) = <<>>
    /\ get_transferable_proposals(Self) = <<>>
    /\ Len(standing_proposals(Self)) = seats_to_fill(Self)

\* The step elects all the standing proposals in one new round, with the
\* method no_competition_left, and changes nothing else.
ElectsTheStanding ==
    /\ Len(rounds') = Len(rounds) + 1
    /\ SubSeq(rounds', 1, Len(rounds)) = rounds
    /\ rounds'[Len(rounds')].status = "elected"
    /\ rounds'[Len(rounds')].selection_method = "no_competition_left"
    /\ Range(rounds'[Len(rounds')].selected) = Range(standing_proposals(Self))
    /\ elected' = elected \o rounds'[Len(rounds')].selected
    /\ excluded' = excluded
    /\ transfer_log' = transfer_log
    /\ votes_transferred' = votes_transferred
    /\ votes' = votes
    /\ ballots' = ballots
    /\ randomized' = randomized

\* C17: in a round of Scottish STV where no standing proposal is at the
\* quota and no elected proposal awaits a surplus transfer, if the standing
\* proposals are as many as the seats to fill, all of them are elected
\* together in one round with the method no_competition_left, nobody is
\* excluded, nothing is transferred, and the election is complete.
C17_NoCompetitionLeft ==
    [][NoCompetition =>
          /\ ElectsTheStanding
          /\ is_complete(Self')
          /\ raised' = ""
          /\ pc' = "rounds"]_vars

(***************************************************************************)
(* IRV: the decision of a round.                                           *)
(***************************************************************************)
\* The step is a round of IRV.
IRVRound == variant = "IRV" /\ pc = "rounds" /\ seats_to_fill(Self) # 0

\* The round elects one proposal, which has votes >= quota, and the rounds
\* stop with the election complete.
ElectsAtQuota ==
    /\ Len(elected') = Len(elected) + 1
    /\ SubSeq(elected', 1, Len(elected)) = elected
    /\ Contains(standing_proposals(Self), elected'[Len(elected')])
    /\ DecLe(Dec(quota(Self)), votes[elected'[Len(elected')]])
    /\ excluded' = excluded
    /\ raised' = ""
    /\ seats_to_fill(Self') = 0
    /\ is_complete(Self')

\* The round excludes exactly one proposal and elects nobody.
ExcludesOne ==
    /\ Len(excluded') = Len(excluded) + 1
    /\ SubSeq(excluded', 1, Len(excluded)) = excluded
    /\ elected' = elected
    /\ raised' = ""

\* The round signals incompleteness: calculate() goes on to return a result
\* that is not complete, with nobody elected, and the round changes nothing
\* of the result.
SignalsIncomplete ==
    /\ raised' = "IncompleteResult"
    /\ pc' = "finish"
    /\ elected' = <<>>
    /\ ~is_complete(Self')
    /\ excluded' = excluded
    /\ rounds' = rounds
    /\ transfer_log' = transfer_log

\* C18 as claimed: a round of IRV elects only a proposal with votes >= the
\* quota, and the rounds stop after it; a round with no such proposal and
\* more than one standing proposal excludes exactly one proposal; a round
\* with no such proposal and exactly one standing proposal signals
\* incompleteness, the result having complete false and nobody elected.
C18_DecisionRuleAlwaysExcludes ==
    [][IRVRound =>
          /\ elected' # elected => ElectsAtQuota
          /\ standing_above_quota(Self) # <<>> => ElectsAtQuota
          /\ (standing_above_quota(Self) = <<>> /\ Len(standing_proposals(Self)) > 1)
                => ExcludesOne
          /\ (standing_above_quota(Self) = <<>> /\ Len(standing_proposals(Self)) = 1)
                => SignalsIncomplete]_vars

\* The chain of the election resolves the tie of the proposals ties for the
\* fewest votes.
Resolvable(ties) ==
    \E draw \in Perms(proposals) : resolve_tie(Self, ties, FALSE, draw).raised = ""

\* The standing proposals with the fewest votes.
Fewest ==
    SelectSeq(standing_proposals(Self),
              LAMBDA x : \A y \in Range(standing_proposals(Self)) : DecLe(votes[x], votes[y]))

\* C18: as above, but a round with nobody at the quota and more than one
\* standing proposal excludes exactly one proposal only if one proposal has
\* the fewest votes or the chain resolves the tie for the fewest; if the
\* chain does not (randomness being disallowed), the round signals
\* incompleteness with nobody excluded.
C18_DecisionRule ==
    [][IRVRound =>
          /\ elected' # elected => ElectsAtQuota
          /\ standing_above_quota(Self) # <<>> => ElectsAtQuota
          /\ (standing_above_quota(Self) = <<>> /\ Len(standing_proposals(Self)) > 1)
                => IF Len(Fewest) = 1 \/ Resolvable(Fewest)
                   THEN ExcludesOne
                   ELSE SignalsIncomplete
          /\ (standing_above_quota(Self) = <<>> /\ Len(standing_proposals(Self)) = 1)
                => SignalsIncomplete]_vars

\* calculate() of IRV has returned having excluded a proposal in one round
\* and elected a proposal at the quota in a later one.
C18_Witness ==
    /\ variant = "IRV"
    /\ pc = "done"
    /\ excluded # <<>>
    /\ Len(elected) = 1
    /\ Len(rounds) > 1
    /\ rounds[Len(rounds)].status = "elected"
    /\ DecLe(Dec(quota(Self)), rounds[Len(rounds)].votes[elected[1]])

(***************************************************************************)
(* Scottish STV: the weight a surplus transfer moves.                      *)
(***************************************************************************)
\* The weight the step takes from the proposal x to the other proposals and
\* to the exhausted total.
WeightMoved(x) ==
    DecSub(DecAdd(LedgerSum(votes'), result_exhausted'),
           DecSub(DecAdd(LedgerSum(votes), result_exhausted), votes[x]))

\* The surplus of the elected proposal x.
Surplus(x) == DecSub(votes[x], Dec(quota(Self)))

\* Half a unit of the fifth place.
HalfOfFifthPlace == DecDiv(Dec(5), Dec(1000000))

\* C19 as claimed: the weight that leaves an elected proposal with v votes
\* in the transfer of its surplus, to next preferences and to the exhausted
\* total, is exactly v - quota.
C19_SurplusExact ==
    [][SurplusTransfer =>
          DecCmp(WeightMoved(Transferred), Surplus(Transferred)) = 0]_vars

\* The ballots bs have become cs by the fraction f applied to those that
\* stood at x.
FractionApplied(bs, cs, x, f) ==
    \A i \in DOMAIN bs :
       cs[i].multiplier = IF current_preference(bs[i]) = x
                          THEN DecMul(bs[i].multiplier, f)
                          ELSE bs[i].multiplier

\* The weight moved is v times the fraction f, which is within v times half
\* a unit of the fifth place of the surplus, and is the surplus where f is
\* the quotient unrounded.
MovedAtFraction(v, surplus, f, moved, unrounded) ==
    /\ DecCmp(moved, DecMul(v, f)) = 0
    /\ DecLe(DecSub(moved, surplus), DecMul(v, HalfOfFifthPlace))
    /\ DecLe(DecSub(surplus, moved), DecMul(v, HalfOfFifthPlace))
    /\ f = unrounded => DecCmp(moved, surplus) = 0

\* The transfer of the surplus of x: each value is computed once.
SurplusMovedBy(x) ==
    \E surplus \in {Surplus(x)}, moved \in {WeightMoved(x)} :
       \E unrounded \in {DecDiv(surplus, votes[x])} :
          \E f \in {DecRound(unrounded, RoundPlaces)} :
             /\ FractionApplied(ballots, ballots', x, f)
             /\ MovedAtFraction(votes[x], surplus, f, moved, unrounded)

\* C19: the fraction applied to the ballots of an elected proposal with v
\* votes is (v - quota)/v rounded to five decimal places, so the weight that
\* leaves the proposal is v times that fraction: v - quota exactly where the
\* quotient has no more than five places, and otherwise off it, above or
\* below, by no more than v times half a unit of the fifth place.
C19_SurplusAtFivePlaces ==
    [][SurplusTransfer => \E x \in {Transferred} : SurplusMovedBy(x)]_vars

\* calculate() of Scottish STV has returned after the transfer of a surplus
\* of 1 vote in 3, at the fraction 0.33333: a ballot has that multiplier.
C19_Witness ==
    /\ variant = "ScottishSTV"
    /\ pc = "done"
    /\ \E x \in Range(elected) : x \in votes_transferred
    /\ \E i \in DOMAIN ballots :
          /\ DecCmp(ballots[i].multiplier, DecRound(DecDiv(Dec(1), Dec(3)), RoundPlaces)) = 0
          /\ DecCmp(DecMul(ballots[i].multiplier, Dec(3)), Dec(1)) < 0

(***************************************************************************)
(* The History strategy.                                                   *)
(***************************************************************************)
\* The lists of two or more standing proposals, in the order of the
\* proposal list, that have the same votes: the ties the chain can be given.
TiedLists ==
    {SelectSeq(standing_proposals(Self), LAMBDA x : x \in set) :
        set \in {t \in SUBSET Range(standing_proposals(Self)) :
                    /\ Cardinality(t) > 1
                    /\ \A x, y \in t : votes[x] = votes[y]}}

\* Of the proposals of set, those with the highest (most_votes) or the
\* lowest count recorded in the snapshot.
Extremes(set, snapshot, most_votes) ==
    {x \in set : \A y \in set : IF most_votes THEN DecLe(snapshot[y], snapshot[x])
                                               ELSE DecLe(snapshot[x], snapshot[y])}

\* The proposals kept of set once the snapshots of the log from the most
\* recent back to the i-th have been examined.
RECURSIVE KeptAt(_, _, _)
KeptAt(set, most_votes, i) ==
    IF i > Len(transfer_log) THEN set
    ELSE Extremes(KeptAt(set, most_votes, i + 1), transfer_log[i].current_votes, most_votes)

\* The strategy leaves the election as it is and returns the list answer.
HistoryReturns(ties, most_votes, answer) ==
    /\ TransferHistoryTiebreaker(Self, ties, most_votes).raised = ""
    /\ TransferHistoryTiebreaker(Self, ties, most_votes).poll = Self
    /\ TransferHistoryTiebreaker(Self, ties, most_votes).ties = answer

\* C20 as claimed: the History strategy examines the snapshots from the most
\* recent to the oldest, keeping at each the tied proposals with the highest,
\* or the lowest, count recorded there, and returns the one proposal kept at
\* the first snapshot where that is a single one; if the log is exhausted
\* without that, it returns exactly the list it was given.
C20_HistoryReturnsTheGiven ==
    (pc \in {"rounds", "elect_multiple"} /\ transfer_log # <<>>) =>
        \A ties \in TiedLists, most_votes \in BOOLEAN :
           \E kept \in {KeptAt(Range(ties), most_votes, 1)} :
              HistoryReturns(ties, most_votes,
                             IF Cardinality(kept) = 1
                             THEN SelectSeq(ties, LAMBDA x : x \in kept)
                             ELSE ties)

\* C20: as above, but if the log is exhausted without a single proposal
\* kept, the strategy returns the proposals kept at the oldest snapshot, in
\* the order given: the list it was given only if no snapshot told the tied
\* proposals apart.
C20_HistoryReturnsTheKept ==
    (pc \in {"rounds", "elect_multiple"} /\ transfer_log # <<>>) =>
        \A ties \in TiedLists, most_votes \in BOOLEAN :
           \E kept \in {KeptAt(Range(ties), most_votes, 1)} :
              /\ kept # {}
              /\ HistoryReturns(ties, most_votes, SelectSeq(ties, LAMBDA x : x \in kept))

\* Three standing proposals have the fewest votes after a transfer; the
\* strategy, called to prefer the lowest, returns two of them, which the
\* first snapshot tells from the third.
C20_Witness ==
    /\ pc = "rounds"
    /\ Len(transfer_log) > 1
    /\ Len(standing_proposals(Self)) = 3
    /\ standing_proposals(Self) \in TiedLists
    /\ Len(TransferHistoryTiebreaker(Self, standing_proposals(Self), FALSE).ties) = 2

(***************************************************************************)
(* The walk of the tie-break chain.                                        *)
(***************************************************************************)
\* The walk r ends at the strategy name, which has returned t.
DecidedAt(t, name, r) ==
    /\ t.raised = ""
    /\ r.raised = ""
    /\ r.proposal = t.ties[1]
    /\ r.method = name
    /\ r.poll = t.poll

\* The walk r ends with the unresolved-tie signal, the poll being p.
Undecided(p, r) ==
    /\ r.raised = "IncompleteResult"
    /\ r.proposal = NoProposal
    /\ r.poll = p

\* r is the walk of the chain from what its second strategy has returned for
\* the proposals the first has kept.
WalksFromSecond(second, r) ==
    IF Len(second.ties) = 1 THEN DecidedAt(second, tiebreakers[2], r)
    ELSE Undecided(second.poll, r)

\* r is the walk of the chain from what its first strategy has returned.
WalksFromFirst(first, most_votes, draw, r) ==
    IF Len(first.ties) = 1 THEN DecidedAt(first, tiebreakers[1], r)
    ELSE IF Len(tiebreakers) = 1 THEN Undecided(first.poll, r)
    ELSE \E second \in {tiebreaker(tiebreakers[2], first.poll, first.ties,
                                    most_votes, draw)} :
            WalksFromSecond(second, r)

\* r is the walk of the chain for the tied proposals.
WalksTheChain(ties, most_votes, draw, r) ==
    IF tiebreakers = <<>> THEN Undecided(Self, r)
    ELSE \E first \in {tiebreaker(tiebreakers[1], Self, ties, most_votes, draw)} :
            WalksFromFirst(first, most_votes, draw, r)

\* The lists the Random strategy can work from: the list it has drawn, or
\* any list random.sample can return.
RandomLists == IF random_list # <<>> THEN {random_list} ELSE Perms(proposals)

\* The step selects, for election under pedantic_order or for exclusion, the
\* proposal get_proposal returns.
Selects ==
    \/ pc = "elect_multiple" /\ elected' # elected
    \/ Exclusion

\* The list get_proposal is called on in the step, and the extreme it prefers.
Sample == IF pc = "elect_multiple" THEN pending ELSE standing_proposals(Self)

MostVotes == pc = "elect_multiple"

\* The round of the step records the proposal and the method of the walk r.
RecordsTheWalk(r) ==
    /\ r.raised = ""
    /\ rounds'[Len(rounds')].selection_method = r.method
    /\ rounds'[Len(rounds')].selected[Len(rounds'[Len(rounds')].selected)] = r.proposal
    /\ randomized' = r.poll.randomized

\* The round of the step records the proposal x as selected directly.
RecordsDirect(x) ==
    /\ rounds'[Len(rounds')].selection_method = "direct"
    /\ rounds'[Len(rounds')].selected[Len(rounds'[Len(rounds')].selected)] = x
    /\ randomized' = randomized

\* The step ends with the unresolved-tie signal of the chain.
Unresolved ==
    /\ pc \in {"rounds", "elect_multiple"}
    /\ raised' = "IncompleteResult"
    /\ variant = "IRV" => Len(standing_proposals(Self)) > 1

\* C21: resolve_tie applies the strategies of the chain in their order, each
\* to the proposals the one before it has kept, and stops at the first that
\* returns one proposal, with the method of that strategy; the round of a
\* selection records that method, or direct where the standing proposals
\* with the votes of the extreme are not several; and if no strategy returns
\* one proposal (the chain may be empty) the unresolved-tie signal is raised
\* and nobody is elected or excluded.
C21_ChainWalk ==
    /\ [](pc \in {"rounds", "elect_multiple"} =>
            /\ Len(tiebreakers) <= 2
            /\ \A ties \in TiedLists, most_votes \in BOOLEAN, draw \in RandomLists :
                  \E r \in {resolve_tie(Self, ties, most_votes, draw)} :
                     WalksTheChain(ties, most_votes, draw, r))
    /\ [][Selects =>
             \E x \in {minmax(Sample, [y \in Range(Sample) |-> votes[y]], MostVotes)} :
                IF Len(StandingWith(x)) > 1
                THEN \E draw \in RandomLists :
                        \E r \in {resolve_tie(Self, StandingWith(x), MostVotes, draw)} :
                           RecordsTheWalk(r)
                ELSE RecordsDirect(x)]_vars
    /\ [][Unresolved =>
             /\ elected' = elected
             /\ excluded' = excluded
             /\ rounds' = rounds
             /\ votes' = votes
             /\ ballots' = ballots
             /\ pc' = "finish"]_vars

\* Three standing proposals had the fewest votes; the History strategy kept
\* the two of them that the first snapshot places lowest, and the Random
\* strategy, given the two, decided which of them the round excluded.
C21_Witness ==
    /\ pc = "rounds"
    /\ tiebreakers = <<"tiebreak_history", "tiebreak_random">>
    /\ rounds # <<>>
    /\ rounds[Len(rounds)].status = "excluded"
    /\ rounds[Len(rounds)].selection_method = "tiebreak_random"
    /\ \E x \in Range(rounds[Len(rounds)].selected) :
          /\ Cardinality({y \in DOMAIN rounds[Len(rounds)].votes :
                             rounds[Len(rounds)].votes[y] = rounds[Len(rounds)].votes[x]}) = 3
          /\ \E y \in DOMAIN rounds[Len(rounds)].votes :
                /\ rounds[Len(rounds)].votes[y] = rounds[Len(rounds)].votes[x]
                /\ DecLt(transfer_log[1].current_votes[x], transfer_log[1].current_votes[y])

(***************************************************************************)
(* CPO-STV: the direct winner of the duels.                                *)
(***************************************************************************)
\* The step is the selection of an outcome from the duels of CPO_STV.
Selection == pc = "duels" /\ seats_to_fill(Self) # 0

\* The outcome x is one of the two of the duel d.
InDuel(d, x) == x = d.compared[1] \/ x = d.compared[2]

\* The outcome x won the duel d; it lost or tied the duel d.
Won(d, x) == InDuel(d, x) /\ ~d.tied /\ d.winner = x

LostOrTied(d, x) == InDuel(d, x) /\ (d.tied \/ d.loser = x)

\* The outcomes the duels compare.
Compared ==
    {duels[i].compared[1] : i \in DOMAIN duels} \cup {duels[i].compared[2] : i \in DOMAIN duels}

\* The outcomes that won a duel and neither lost nor tied any.
ClearWinners ==
    {x \in Compared :
        /\ \E i \in DOMAIN duels : Won(duels[i], x)
        /\ \A i \in DOMAIN duels : ~LostOrTied(duels[i], x)}

\* The step elects the proposals of the outcome x, in the order of their
\* votes, with the method cpo, and marks nothing as randomized.
ElectsOutcome(x) ==
    /\ raised' = ""
    /\ elected' = elected \o sorted_by_votes(Self, x)
    /\ rounds'[Len(rounds')].selection_method = "cpo"
    /\ rounds'[Len(rounds')].selected = sorted_by_votes(Self, x)
    /\ randomized' = randomized

\* The step goes on from what the minimax step over the Smith set returns
\* or raises.
ByMinimax == \E b \in resolve_tie_minimax(Self, duels) : Self' = elect_best(b)

\* C22: an outcome is declared the winner of the duels without the graph
\* step if and only if it is the only outcome that won a duel and neither
\* lost nor tied any, a tied duel counting as a loss of both its outcomes; in
\* every other case the winner is taken from the minimax step over the Smith
\* set.
C22_DirectWinner ==
    [][Selection =>
          /\ Range(possible_outcomes(Self)) = Compared
          /\ \A i \in DOMAIN duels :
                duels[i].tied => (/\ LostOrTied(duels[i], duels[i].compared[1])
                                  /\ LostOrTied(duels[i], duels[i].compared[2]))
          /\ IF Cardinality(ClearWinners) = 1
             THEN \E x \in ClearWinners : ElectsOutcome(x) /\ get_duels_winner(duels) = x
             ELSE ByMinimax /\ get_duels_winner(duels) = <<>>]_vars

\* calculate() of CPO-STV has compared three outcomes or more and elected
\* the one that won its duels, another duel being tied.
C22_Witness ==
    /\ variant = "CPO_STV"
    /\ pc = "done"
    /\ Len(duels) >= 3
    /\ is_complete(Self)
    /\ rounds[Len(rounds)].selection_method = "cpo"
    /\ \E i \in DOMAIN duels : duels[i].tied
    /\ \E x \in ClearWinners : Range(x) \subseteq Range(elected)

(***************************************************************************)
(* CPO-STV: the Smith set.                                                 *)
(***************************************************************************)
\* The outcome x defeats the outcome y: it won their duel, which was not tied.
Defeats(x, y) ==
    \E i \in DOMAIN duels : ~duels[i].tied /\ duels[i].winner = x /\ duels[i].loser = y

\* Every outcome of the set defeats every outcome outside it.
Dominant(set) == \A x \in set, y \in Compared \ set : Defeats(x, y)

\* C23: the set of outcomes resolve_tie_minimax takes for the Smith set, the
\* first strongly connected component returned for the graph of the duels
\* (an edge from the loser to the winner of each duel, edges both ways for a
\* tied duel), is the topmost component of the dominance graph: it is not
\* empty, every outcome inside it defeats every outcome outside it, and no
\* proper non-empty subset of it has that property.
C23_SmithSetIsTopmost ==
    (variant = "CPO_STV" /\ duels # <<>>) =>
        /\ tarjan_first(duels) # {}
        /\ \A smith_set \in tarjan_first(duels) :
              /\ smith_set # {}
              /\ smith_set \subseteq Compared
              /\ Dominant(smith_set)
              /\ \A part \in SUBSET smith_set :
                    (part # {} /\ part # smith_set) => ~Dominant(part)

\* The duels have no direct winner, and the Smith set of the minimax step has
\* several outcomes and leaves an outcome out.
C23_Witness ==
    /\ variant = "CPO_STV"
    /\ pc = "duels"
    /\ seats_to_fill(Self) # 0
    /\ get_duels_winner(duels) = <<>>
    /\ \E smith_set \in tarjan_first(duels) :
          /\ Cardinality(smith_set) > 1
          /\ smith_set # Compared

(***************************************************************************)
(* CPO-STV: the votes of the elected proposals.                            *)
(***************************************************************************)
\* C24 as claimed: when calculate() of CPO-STV has elected its winners, the
\* ledger entry of every elected proposal is at most the quota, the surplus
\* of a proposal elected above the quota having been transferred and its
\* entry set to the quota.
C24_ElectedAtMostQuota ==
    (variant = "CPO_STV" /\ pc = "done" /\ raised = "") =>
        \A x \in Range(elected) : DecLe(votes[x], Dec(quota(Self)))

\* The step st of a sub-election transfers the surplus of a proposal it has
\* elected.
SubTransfer(st) ==
    /\ st[2].excluded = st[1].excluded
    /\ st[2].votes_transferred # st[1].votes_transferred

\* From the sub-election before to the sub-election after, the value of
\* every ballot standing at x is multiplied by f and the ballot goes on from
\* x, and the entry of x becomes the quota of the sub-election.
SetToQuota(before, after, x, f) ==
    /\ after.votes[x] = Dec(quota(after))
    /\ \A i \in DOMAIN before.ballots :
          IF current_preference(before.ballots[i]) = x
          THEN /\ after.ballots[i].multiplier = DecMul(before.ballots[i].multiplier, f)
               /\ current_preference(after.ballots[i]) # x
          ELSE after.ballots[i] = before.ballots[i]

\* The step st of a sub-election, which takes x to the transferred proposals.
SurplusCapped(st, x) ==
    /\ st[2].raised = ""
    /\ Contains(st[1].elected, x)
    /\ Contains(elect_above_quota(Self).elected, x)
    /\ \E f \in {DecDiv(DecSub(st[1].votes[x], Dec(quota(st[2]))), st[1].votes[x])} :
          SetToQuota(st[1], st[2], x, f)

\* C24: it is in the comparison sub-election of a duel that each proposal
\* the election has elected above its quota has its surplus transferred, at
\* the fraction (votes - quota) / votes of the sub-election, and its ledger
\* entry set to exactly the quota of the sub-election; calculate() of
\* CPO-STV changes nothing of the ledger and of the ballots of the election
\* itself after the initial count, so that a proposal elected above the quota
\* keeps more votes than the quota when calculate() has returned.
C24_SurplusCappedInDuels ==
    /\ [](\A st \in SubSteps :
             SubTransfer(st) =>
                \A x \in st[2].votes_transferred \ st[1].votes_transferred :
                   SurplusCapped(st, x))
    /\ [][(variant = "CPO_STV" /\ pc \in {"cpo", "duels", "finish"}) =>
             /\ votes' = votes
             /\ ballots' = ballots
             /\ transfer_log' = transfer_log
             /\ votes_transferred' = votes_transferred
             /\ result_exhausted' = result_exhausted]_vars
    /\ []((variant = "CPO_STV" /\ pc = "done" /\ raised = "" /\ Len(proposals) # seats) =>
             \A i \in DOMAIN rounds :
                rounds[i].selection_method = "direct" =>
                   \A x \in Range(rounds[i].selected) : DecLt(Dec(quota(Self)), votes[x]))

\* calculate() of CPO-STV has returned a complete result: one proposal was
\* elected above the quota, the duels, in whose sub-elections its surplus was
\* transferred, decided the rest, and the proposal has the votes it had.
C24_Witness ==
    /\ variant = "CPO_STV"
    /\ pc = "done"
    /\ is_complete(Self)
    /\ duels # <<>>
    /\ Len(rounds) = 2
    /\ rounds[1].selection_method = "direct"
    /\ rounds[2].selection_method = "cpo"
    /\ \E x \in Range(rounds[1].selected) :
          /\ DecLt(Dec(quota(Self)), votes[x])
          /\ votes[x] = transfer_log[1].current_votes[x]
          /\ \E i \in DOMAIN ballots :
                /\ ballots[i].preferences[1] = x
                /\ Len(ballots[i].preferences) > 1
                /\ ballots[i].multiplier = DecOne

(***************************************************************************)
(* CPO-STV: the isolation of the duels.                                    *)
(***************************************************************************)
\* The step runs the duels: with the election q that the election of the
\* proposals above the quota has left, it leaves the election as q is, but
\* for the list of the duels.
ParentUnchanged(q) ==
    /\ votes' = q.votes /\ votes' = votes
    /\ ballots' = q.ballots /\ ballots' = ballots
    /\ excluded' = q.excluded /\ excluded' = excluded
    /\ elected' = q.elected
    /\ rounds' = q.rounds
    /\ transfer_log' = q.transfer_log /\ transfer_log' = transfer_log
    /\ result_exhausted' = q.exhausted /\ result_exhausted' = result_exhausted
    /\ votes_transferred' = q.votes_transferred
    /\ proposals' = proposals
    /\ _quota' = q._quota

\* The votes of the first preference x in the ballots of the election.
FirstPreferences(x) ==
    LET pos == SelectSeq([i \in 1..Len(ballots) |-> i], LAMBDA i : ballots[i].preferences[1] = x)
    IN  DecSum([k \in 1..Len(pos) |-> Dec(ballots[pos[k]].count)])

\* The sub-election sub, which has counted its ballots, began afresh: its
\* ballots are those of the election at full value and at their first
\* preference, its ledger has the first preferences only, and it has no
\* round, no proposal elected or excluded and no quota of its own yet.
Fresh(sub) ==
    /\ sub.ballots = [i \in DOMAIN ballots |->
                         [preferences |-> ballots[i].preferences, count |-> ballots[i].count,
                          multiplier |-> DecOne, index |-> 0]]
    /\ sub.raised = "" =>
          /\ DOMAIN sub.votes = Range(proposals)
          /\ \A x \in Range(proposals) : DecCmp(sub.votes[x], FirstPreferences(x)) = 0
          /\ Len(sub.transfer_log) = 1
    /\ sub.excluded = <<>>
    /\ sub.elected = <<>>
    /\ sub.rounds = <<>>
    /\ sub.votes_transferred = {}
    /\ sub.exhausted = DecZero
    /\ sub._quota = <<>>

\* The result of every duel of the election p is the same whatever the
\* order its sub-election is left in by the shuffle, which is drawn from
\* the random generator that all the elections share and that the duels run
\* before have advanced.
DuelsApart(p, pairs) ==
    \A i \in DOMAIN pairs :
       \A sh1, sh2 \in Shuffles(p.proposals) :
          duel_shuffled(p, pairs[i], Range(pairs[i][1]) \cup Range(pairs[i][2]), sh1)
             = duel_shuffled(p, pairs[i], Range(pairs[i][1]) \cup Range(pairs[i][2]), sh2)

\* The election is left as it was by the sub-elections of its duels.
DuelsLeaveTheParent ==
    [][(pc = "cpo" /\ pc' = "duels") =>
          \E q \in {elect_above_quota(Self)} : ParentUnchanged(q)]_vars

\* Every sub-election of a duel begins afresh.
DuelsBeginAfresh == [](\A c \in Counted : Fresh(c.poll))

\* C25: the construction and the calculation of the sub-election of a duel
\* leave the election unchanged (ledger, ballots, excluded and elected
\* proposals, rounds, transfer log, exhausted total), and every duel begins
\* from fresh ballots, at their first preference and at full value, so that
\* the two totals of a duel do not depend on the duels run before it nor on
\* the order the duels are run in.
C25_DuelIsolation ==
    /\ DuelsLeaveTheParent
    /\ DuelsBeginAfresh
    /\ [](AboutToDuel =>
            \E q \in {elect_above_quota(Self)} :
               DuelsApart(q, combinations(possible_outcomes(q), 2)))

(***************************************************************************)
(* elect_multiple under pedantic_order.                                    *)
(***************************************************************************)
\* The proposals of the list of elect_multiple that are not elected yet.
StillToElect == SelectSeq(pending, LAMBDA x : ~Contains(elected, x))

\* The pass of the loop elects one proposal of the list that is not elected
\* yet and has the most votes of those, in the round that is open.
ElectsTheNext ==
    /\ raised' = ""
    /\ Len(elected') = Len(elected) + 1
    /\ SubSeq(elected', 1, Len(elected)) = elected
    /\ Contains(StillToElect, elected'[Len(elected')])
    /\ \A y \in Range(StillToElect) : DecLe(votes[y], votes[elected'[Len(elected')]])
    /\ Len(rounds') = Len(rounds)

\* The pass of the loop raises the unresolved-tie signal and elects nobody.
RaisesUnresolved ==
    /\ raised' = "IncompleteResult"
    /\ elected' = elected
    /\ pc' = "finish"

\* C26: with pedantic_order, elect_multiple called with a list that is not
\* empty opens one round, then elects each proposal of the list exactly
\* once, one at a time in descending order of the votes, equal votes being
\* resolved by the tie-break chain, and returns once all of them are elected
\* (or raises the unresolved-tie signal if the chain cannot decide a tie):
\* control is in the loop only while a proposal of the list is still to be
\* elected.
C26_PedanticElectsEachOnce ==
    /\ [][(pc = "rounds" /\ pc' = "elect_multiple") =>
             /\ Len(rounds') = Len(rounds) + 1
             /\ elected' = elected
             /\ pending' # <<>>]_vars
    /\ [][pc = "elect_multiple" => (ElectsTheNext \/ RaisesUnresolved)]_vars
    /\ [](pc = "elect_multiple" => StillToElect # <<>>)

(***************************************************************************)
(* The seats bound the elected.                                            *)
(***************************************************************************)
\* No proposal is twice in the list.
NoRepeat(s) == \A i, j \in DOMAIN s : s[i] = s[j] => i = j

\* calculate() has been entered.
InCalculate == pc \notin {"new", "ingest"}

\* C27: in every state of calculate() with the default quota of the variant
\* and pedantic_order false, no proposal is elected twice, no more than
\* `seats` proposals are elected (seats_to_fill is never negative), and the
\* standing proposals are at least as many as the seats to fill.
C27_SeatBound ==
    (InCalculate /\ ~pedantic_order) =>
        /\ NoRepeat(elected)
        /\ Len(elected) <= seats
        /\ Len(standing_proposals(Self)) >= seats_to_fill(Self)

(***************************************************************************)
(* The ledger and the ballots.                                             *)
(***************************************************************************)
\* The values of the ballots whose current preference is x, in the order of
\* the ballots.
ValuesAt(x) ==
    LET at == SelectSeq(ballots, LAMBDA b : current_preference(b) = x)
    IN  [k \in 1..Len(at) |-> value(at[k])]

\* The limbs after the point of the finest of the numbers of s.
FinestExp(s) == IF s = <<>> THEN 0 ELSE CHOOSE m \in {s[i].e : i \in DOMAIN s} : \A i \in DOMAIN s : s[i].e <= m

\* The sum of the numbers of s, none negative, as a coefficient with e limbs
\* after the point: the sum of arithmetic, which nothing rounds.
RECURSIVE ExactCoef(_, _, _)
ExactCoef(acc, e, s) ==
    IF s = <<>> THEN LNorm(acc) ELSE ExactCoef(LAdd(acc, DecCoef(s[1], e)), e, Tail(s))

\* The numbers of s have the sum of the numbers of t.
SameSum(s, t) ==
    \E e \in {Max(FinestExp(s), FinestExp(t))} :
       LCmp(ExactCoef(<<>>, e, s), ExactCoef(<<>>, e, t)) = 0

\* The sum of s, written with the places of its finest number, has no more
\* digits than the context of the arithmetic keeps: no order of adding the
\* numbers of s rounds.
FitsContext(s) == LDigits(ExactCoef(<<>>, FinestExp(s), s)) <= DecimalPrec

\* Each entry of the ledger is the sum of the values of the ballots that
\* stand at its proposal.
LedgerAgrees == \A x \in DOMAIN votes : SameSum(<<votes[x]>>, ValuesAt(x))

\* The same of the entries whose sum the context can hold.
LedgerAgreesInContext ==
    \A x \in DOMAIN votes : \A held \in {ValuesAt(x)} :
       FitsContext(held) => SameSum(<<votes[x]>>, held)

\* The entries of a ledger, in the order of the proposal list, and the
\* exhausted total.
Held(ledger, spent) ==
    LET keys == SelectSeq(proposals, LAMBDA x : x \in DOMAIN ledger)
    IN  [i \in 1..Len(keys) |-> ledger[keys[i]]] \o <<spent>>

\* The values of the ballots that stand at a proposal of the ledger, and the
\* exhausted total.
AllValues ==
    LET at == SelectSeq(ballots, LAMBDA b : current_preference(b) \in DOMAIN votes)
    IN  [k \in 1..Len(at) |-> value(at[k])] \o <<result_exhausted>>

\* The step leaves the sum of the ledger and the exhausted total unchanged.
SumUnchanged == SameSum(Held(votes', result_exhausted'), Held(votes, result_exhausted))

\* The step adds weight to no proposal other than one that is standing
\* before and neither elected nor excluded after it.
OnlyStandingGain ==
    \A x \in DOMAIN votes \cap DOMAIN votes' :
       DecLt(votes[x], votes'[x]) =>
          /\ Contains(standing_proposals(Self), x)
          /\ ~Contains(elected', x)
          /\ ~Contains(excluded', x)

OtherShuffle ==
    [STVPoll(variant, seats, Reverse(proposals), pedantic_order, _quota_function, tiebreakers)
        EXCEPT !.ballots = [i \in DOMAIN ballots |->
                               PreferenceBallot(ballots[i].preferences, ballots[i].count)],
               !.empty_ballot_count = empty_ballot_count,
               !._quota = _quota]

\* The rounds a run can take: each elects, transfers or excludes.
MaxRounds == 3 * Len(Four) + 2

\* `while self.seats_to_fill: self.calculate_round()` with pedantic_order
\* false, from the poll p to the return or the exception; a run that reaches
\* the random strategy is handed the list as given.
RECURSIVE RunRounds(_, _)
RunRounds(p, n) ==
    IF p.raised # "" \/ seats_to_fill(p) = 0 \/ n = 0 THEN p
    ELSE RunRounds(calculate_round(p, p.proposals), n - 1)

\* calculate() of the other run up to result.finish().
OtherRun == RunRounds(initial_votes(OtherShuffle), MaxRounds)

\* calculate() of the run o has returned a result not marked as randomized.
ReturnedUnrandomized(o) ==
    /\ o.raised \in {"", "IncompleteResult"}
    /\ o.randomized # <<TRUE>>

\* C29: for Scottish STV and IRV with pedantic_order false, two runs on the
\* same proposals, ballots and configuration that differ only in the shuffle
\* of the constructor and both return with randomized false elect the same
\* set of proposals and have the same completion flag.
C29_ShuffleIndependence ==
    (/\ pc = "done"
     /\ variant \in {"IRV", "ScottishSTV"}
     /\ ~pedantic_order
     /\ ReturnedUnrandomized(Self))
        => \A o \in {OtherRun} :
              ReturnedUnrandomized(o) =>
                 /\ Range(o.elected) = Range(elected)
                 /\ is_complete(o) = is_complete(Self)

(***************************************************************************)
(* CPO-STV: the minimax step is well defined.                              *)
(***************************************************************************)
\* get_best_approval is past its loop with seats to fill.
AtTheDuels == pc = "duels" /\ variant = "CPO_STV" /\ seats_to_fill(Self) > 0

\* An outcome: as many standing proposals as there are seats to fill, none
\* of them twice.
IsOutcome(x) ==
    /\ Len(x) = seats_to_fill(Self)
    /\ Range(x) \subseteq Range(standing_proposals(Self))
    /\ NoRepeat(x)

\* The step ends by returning an outcome or by the unresolved-tie signal.
EndsWell(b) ==
    \/ b.poll.raised = "IncompleteResult"
    \/ b.poll.raised = "" /\ IsOutcome(b.best)

\* Every component the library can return first is not empty and each of
\* its outcomes lost or tied a duel.
SmithSetsDefeated ==
    /\ tarjan_first(duels) # {}
    /\ \A smith_set \in tarjan_first(duels) :
          /\ smith_set # {}
          /\ \A x \in smith_set : defeats(duels, x) # <<>>

\* C30: in calculate() of CPO-STV with more proposals than seats and the
\* default quota, whenever seats remain to fill the list of the duels is not
\* empty; if no outcome is a direct winner, the list of the components of
\* the dominance graph is not empty and every outcome of the Smith set lost
\* or tied a duel, so its largest defeat exists; and the step ends by
\* returning one outcome of exactly seats_to_fill standing proposals, which
\* are then elected, or by the unresolved-tie signal, by no other fault.
C30_MinimaxWellDefined ==
    /\ [](AtTheDuels =>
             /\ Len(proposals) > seats
             /\ duels # <<>>
             /\ get_duels_winner(duels) = <<>> => SmithSetsDefeated
             /\ \A b \in best_approval(Self, duels) : EndsWell(b))
    /\ [][(/\ pc = "cpo"
            /\ Len(proposals) > seats
            /\ seats_to_fill(elect_above_quota(Self)) > 0) =>
               (pc' = "duels" /\ raised' = "" /\ duels' # <<>>)]_vars
    /\ [][AtTheDuels =>
             \/ raised' = "IncompleteResult" /\ elected' = elected
             \/ /\ raised' = ""
                /\ Len(elected') = seats
                /\ SubSeq(elected', 1, Len(elected)) = elected
                /\ IsOutcome(SubSeq(elected', Len(elected) + 1, Len(elected')))]_vars

\* No outcome is a direct winner, and the Smith set the minimax step works
\* on has several outcomes.
C30_Witness ==
    /\ AtTheDuels
    /\ get_duels_winner(duels) = <<>>
    /\ \E smith_set \in tarjan_first(duels) : Cardinality(smith_set) > 1

(***************************************************************************)
(* The quota and the ballots counted.                                      *)
(***************************************************************************)
\* C31: whatever add_ballot calls and reads of the quota (directly or by
\* as_dict of the result) come before calculate(), the quota calculate()
\* uses to elect proposals is the quota function applied to all the ballots
\* present when calculate() starts: once calculate() has been entered, a
\* quota the election holds is that of its ballots.
C31_QuotaOfTheBallots ==
    (InCalculate /\ _quota # <<>>) => _quota = <<quota_function(Self)>>

====
